---- MODULE Spec2Model ----
(***************************************************************************)
(* A model of the gate bot: the quiz-pass tables (gatebot/models.py) and   *)
(* the handlers of GateBot (gatebot/bot.py) that act on them.  Every       *)
(* handler is one action; the calls it makes on the Telegram bot object    *)
(* are recorded, in order, in `calls`.                                     *)
(***************************************************************************)
EXTENDS Integers, Sequences, FiniteSets, Bags, TLC

\* ------------------------------------------------------------------ bounds
MaxTime == 2            \* the clock stops here
MaxPasses == 2          \* rows the quizpass table may hold
MaxAnswer == 2          \* largest N of an answer_<N> press
MaxJobs == 2            \* jobs the job queue may hold
MaxItems == 3           \* items of a pass whose properties are read directly
MaxDicts == 3           \* questions in a questions file
MaxLate == 3            \* the clock of the rejoin runs stops here

\* ----------------------------------------------------------- configuration
\* The values of self.config, a small configuration (the tests run with
\* 3 questions per quiz and 2 correct answers required).
QUESTIONS_PER_QUIZ == 2
CORRECT_ANSWERS_REQUIRED == 1
WAIT_HOURS_ON_FAIL == 1 \* cooldown after a failed quiz, in hours
GROUP_ID == 0
KICK_INACTIVE_AFTER == 1 \* delay of the inactivity job, in clock units
DELETE_JOIN_MESSAGES == TRUE
DELETE_LEAVE_MESSAGES == TRUE

UnitsPerHour == 2       \* clock units in one hour (3600 s)
None == -1              \* Python None in a nullable column / Optional

Users == {1}               \* the users who join and take the quiz
Senders == {2}             \* the users who send /kick and /ban
MessageIds == {7}

\* The question bank (self.questions): text, options, answer.
Questions ==
    << [text |-> 1, options |-> <<11, 12>>, answer |-> 0],
       [text |-> 2, options |-> <<21, 22, 23>>, answer |-> 2] >>

\* random.sample(self.questions, QUESTIONS_PER_QUIZ): every ordered choice of
\* QUESTIONS_PER_QUIZ pairwise distinct questions of the bank
Samples ==
    {[i \in 1..QUESTIONS_PER_QUIZ |-> Questions[f[i]]] :
        f \in {g \in [1..QUESTIONS_PER_QUIZ -> 1..Len(Questions)] :
                    \A i, j \in 1..QUESTIONS_PER_QUIZ : i # j => g[i] # g[j]}}

\* callback_query.data values the model sends
CallbackData ==
    {"ignore", "start_quiz", "next", "prev", "share_result", "bogus"}
        \cup {"answer_" \o ToString(n) : n \in 0..MaxAnswer}

VARIABLES passes, now, ev, calls, jobs, started, removed, running
vars == <<passes, now, ev, calls, jobs, started, removed, running>>

\* --------------------------------------------------------------- models.py
NoPass == [id |-> None]

Max(S) == CHOOSE x \in S : \A y \in S : y <= x

\* QuizItem.is_answered
is_answered(item) == item.given_answer # None /\ item.answered_at # None

\* QuizItem.is_answered_correctly
is_answered_correctly(item) ==
    is_answered(item) /\ item.correct_answer = item.given_answer

\* mutant of set_answer_raises: no range check
set_answer_raises_never(item, answer) == FALSE

\* mutant of set_answer_raises: only the lower end is checked
set_answer_raises_negative(item, answer) == answer < 0

\* QuizItem.set_answer: whether the range check raises ValueError
set_answer_raises(item, answer) == answer < 0 \/ answer >= Len(item.options)

\* mutant of set_answer: keeps the first answer
set_answer_first_wins(item, answer, t) ==
    IF item.given_answer # None THEN item
    ELSE [item EXCEPT !.given_answer = answer, !.answered_at = t]

\* QuizItem.set_answer: the item after a call that passed the range check
set_answer(item, answer, t) ==
    [item EXCEPT !.given_answer = answer, !.answered_at = t]

\* QuizPass.current_item: the first item whose index is current_item_index
current_item_pos(qp) ==
    LET hits == {i \in 1..Len(qp.quizitems) :
                    qp.quizitems[i].index = qp.current_item_index}
    IN IF hits = {} THEN None ELSE CHOOSE i \in hits : \A j \in hits : i <= j

current_item(qp) == qp.quizitems[current_item_pos(qp)]

\* mutant of move_to_next: wraps one step too late
move_to_next_late_wrap(qp) ==
    LET i == qp.current_item_index + 1
    IN [qp EXCEPT !.current_item_index =
            IF i > Len(qp.quizitems) THEN 0 ELSE i]

\* QuizPass.move_to_next
move_to_next(qp) ==
    LET i == qp.current_item_index + 1
    IN [qp EXCEPT !.current_item_index =
            IF i >= Len(qp.quizitems) THEN 0 ELSE i]

\* QuizPass.move_to_prev
move_to_prev(qp) ==
    LET i == qp.current_item_index - 1
    IN [qp EXCEPT !.current_item_index =
            IF i < 0 THEN Len(qp.quizitems) - 1 ELSE i]

\* mutant of is_finished: one answered item is enough
is_finished_any(qp) ==
    \E i \in 1..Len(qp.quizitems) : is_answered(qp.quizitems[i])

\* QuizPass.is_finished
is_finished(qp) ==
    \A i \in 1..Len(qp.quizitems) : is_answered(qp.quizitems[i])

\* mutant of correct_given: every answered item counts
correct_given_answered(qp) ==
    Cardinality({i \in 1..Len(qp.quizitems) : is_answered(qp.quizitems[i])})

\* QuizPass.correct_given
correct_given(qp) ==
    Cardinality({i \in 1..Len(qp.quizitems) :
                    is_answered_correctly(qp.quizitems[i])})

\* mutant of has_passed: every item has to be correct
has_passed_all(qp) == correct_given(qp) >= Len(qp.quizitems)

\* mutant of has_passed: the required count itself does not pass
has_passed_strict(qp) == correct_given(qp) > qp.correct_required

\* QuizPass.has_passed
has_passed(qp) == correct_given(qp) >= qp.correct_required

\* mutant of last_answer_at: the earliest answer
last_answer_at_first(qp) ==
    LET answer_times == {qp.quizitems[i].answered_at :
                            i \in {j \in 1..Len(qp.quizitems) :
                                    qp.quizitems[j].answered_at # None}}
    IN IF answer_times # {}
       THEN CHOOSE t \in answer_times : \A u \in answer_times : t <= u
       ELSE None

\* QuizPass.last_answer_at
last_answer_at(qp) ==
    LET answer_times == {qp.quizitems[i].answered_at :
                            i \in {j \in 1..Len(qp.quizitems) :
                                    qp.quizitems[j].answered_at # None}}
    IN IF answer_times # {} THEN Max(answer_times) ELSE None

\* the id the table gives a new row (INTEGER PRIMARY KEY: largest + 1)
next_id(ps) == IF ps = {} THEN 1 ELSE Max({p.id : p \in ps}) + 1

\* mutant of create_quizpass: the questions are taken last to first
create_quizpass_reversed(ps, user_id, questions, correct_required, t) ==
    [id |-> next_id(ps),
     user_id |-> user_id,
     correct_required |-> correct_required,
     current_item_index |-> 0,
     created_at |-> t,
     result_shared |-> FALSE,
     quizitems |-> [q_ix \in 1..Len(questions) |->
        [index |-> q_ix - 1,
         text |-> questions[Len(questions) + 1 - q_ix].text,
         correct_answer |-> questions[Len(questions) + 1 - q_ix].answer,
         given_answer |-> None,
         answered_at |-> None,
         options |-> questions[Len(questions) + 1 - q_ix].options]]]

\* create_quizpass: the new row, its items and their options
create_quizpass(ps, user_id, questions, correct_required, t) ==
    [id |-> next_id(ps),
     user_id |-> user_id,
     correct_required |-> correct_required,
     current_item_index |-> 0,
     created_at |-> t,
     result_shared |-> FALSE,
     quizitems |-> [q_ix \in 1..Len(questions) |->
        [index |-> q_ix - 1,
         text |-> questions[q_ix].text,
         correct_answer |-> questions[q_ix].answer,
         given_answer |-> None,
         answered_at |-> None,
         options |-> questions[q_ix].options]]]

\* create_quizpass commits the pass row, then each item row followed by each
\* of its option rows: the number of commits made before the row of item q_ix
commits_before(questions, q_ix) ==
    LET before[j \in 1..q_ix] ==
            IF j = 1 THEN 1
            ELSE before[j - 1] + 1 + Len(questions[j - 1].options)
    IN before[q_ix]

\* the number of commits of a whole create_quizpass
commits_total(questions) ==
    IF questions = <<>> THEN 1
    ELSE commits_before(questions, Len(questions)) + 1
            + Len(questions[Len(questions)].options)

Min(a, b) == IF a <= b THEN a ELSE b

\* create_quizpass: the rows in the tables once the first `commits` commits
\* (at least the one of the pass row) are made
create_quizpass_commits(ps, user_id, questions, correct_required, t, commits) ==
    LET whole == create_quizpass(ps, user_id, questions, correct_required, t)
        stored == {q_ix \in 1..Len(questions) :
                    commits > commits_before(questions, q_ix)}
    IN [whole EXCEPT !.quizitems =
            [q_ix \in 1..Cardinality(stored) |->
                [whole.quizitems[q_ix] EXCEPT !.options =
                    SubSeq(@, 1, Min(Len(@),
                        commits - commits_before(questions, q_ix) - 1))]]]

\* mutant of get_active_quizpass: ascending order, the oldest row first
get_active_quizpass_oldest(ps, user_id) ==
    LET mine == {p \in ps : p.user_id = user_id}
    IN IF mine = {} THEN NoPass
       ELSE CHOOSE p \in mine : \A q \in mine : p.created_at <= q.created_at

\* mutant of get_active_quizpass: no filter on user_id
get_active_quizpass_any_user(ps, user_id) ==
    IF ps = {} THEN NoPass
    ELSE CHOOSE p \in ps : \A q \in ps : q.created_at <= p.created_at

\* get_active_quizpass: the user's row with the latest created_at, or None
get_active_quizpass(ps, user_id) ==
    LET mine == {p \in ps : p.user_id = user_id}
    IN IF mine = {} THEN NoPass
       ELSE CHOOSE p \in mine : \A q \in mine : q.created_at <= p.created_at

\* ------------------------------------------------------------ questions.py
\* Question(text, options, answer)
Question(text, options, answer) ==
    [text |-> text, options |-> options, answer |-> answer]

\* Question.validate: whether it raises ValueError
validate_raises(q) == q.answer < 0 \/ q.answer >= Len(q.options)

\* mutant of load_questions: the error names the index enumerate() gives
load_questions_zero_based(question_dicts) ==
    LET q(i) == Question(question_dicts[i + 1].question,
                         question_dicts[i + 1].options,
                         question_dicts[i + 1].answer)
        invalid == {i \in 0..(Len(question_dicts) - 1) : validate_raises(q(i))}
    IN IF invalid = {}
       THEN [raised |-> FALSE,
             questions |-> [n \in 1..Len(question_dicts) |-> q(n - 1)]]
       ELSE LET i == CHOOSE i \in invalid : \A j \in invalid : i <= j
            IN [raised |-> TRUE,
                error |-> [kind |-> "Error while parsing question",
                           number |-> i, text |-> q(i).text]]

\* load_questions, given what json.load returned: the questions, or the
\* ValueError raised at the first question that does not validate, i being
\* the index enumerate() gives (from 0)
load_questions(question_dicts) ==
    LET q(i) == Question(question_dicts[i + 1].question,
                         question_dicts[i + 1].options,
                         question_dicts[i + 1].answer)
        invalid == {i \in 0..(Len(question_dicts) - 1) : validate_raises(q(i))}
    IN IF invalid = {}
       THEN [raised |-> FALSE,
             questions |-> [n \in 1..Len(question_dicts) |-> q(n - 1)]]
       ELSE LET i == CHOOSE i \in invalid : \A j \in invalid : i <= j
            IN [raised |-> TRUE,
                error |-> [kind |-> "Error while parsing question",
                           number |-> i + 1, text |-> q(i).text]]

\* ------------------------------------------------------------------ bot.py
\* One call on the Telegram bot object.
Call(op, chat_id, user_id, message_id, text, reply_markup) ==
    [op |-> op, chat_id |-> chat_id, user_id |-> user_id,
     message_id |-> message_id, text |-> text, reply_markup |-> reply_markup]

NoText == [kind |-> ""]

\* the places in a sequence of calls of the calls with the given op, and of
\* those among them that name the user
Made(cs, op) == {i \in 1..Len(cs) : cs[i].op = op}
MadeFor(cs, op, u) == {i \in Made(cs, op) : cs[i].user_id = u}

Button(text, callback_data) == [text |-> text, callback_data |-> callback_data]

answer_callback_query == Call("answer_callback_query", None, None, None, NoText, <<>>)

\* send_message(messages.PASSED, result, total) with the share button
send_passed(user_id, quizpass) ==
    Call("send_message", user_id, None, None,
         [kind |-> "PASSED", result |-> correct_given(quizpass),
          total |-> Len(quizpass.quizitems)],
         << <<Button("Share the result", "share_result")>> >>)

\* send_message(messages.FAILED, result, total, required, wait_hours)
send_failed(user_id, quizpass, hours) ==
    Call("send_message", user_id, None, None,
         [kind |-> "FAILED", result |-> correct_given(quizpass),
          total |-> Len(quizpass.quizitems),
          required |-> quizpass.correct_required, wait_hours |-> hours],
         <<>>)

\* send_message(messages.GETTING_STARTED) with the start button
send_getting_started(chat_id) ==
    Call("send_message", chat_id, None, None,
         [kind |-> "GETTING_STARTED",
          questions_total |-> QUESTIONS_PER_QUIZ,
          answers_required |-> CORRECT_ANSWERS_REQUIRED],
         << <<Button("Start the quiz", "start_quiz")>> >>)

\* restrict_chat_member(GROUP_ID, user_id, ChatPermissions(all = allow))
restrict_chat_member(user_id, allow) ==
    Call("restrict_chat_member", GROUP_ID, user_id, None,
         [kind |-> "", can_send_message |-> allow], <<>>)

\* the Correct/Wrong line _display_quizpass appends for an answered item
annotation(item) ==
    IF is_answered(item)
    THEN IF is_answered_correctly(item) THEN "Correct." ELSE "Wrong."
    ELSE ""

\* _display_quizpass: the edit_message_text call showing the current item
display_quizpass(message_id, user_id, quizpass) ==
    LET item == current_item(quizpass)
        ans_buttons == [ix \in 1..Len(item.options) |->
            Button(ToString(ix - 1), "answer_" \o ToString(ix - 1))]
        nav_buttons ==
            << Button("<", "prev"),
               Button(ToString(item.index + 1) \o "/"
                        \o ToString(QUESTIONS_PER_QUIZ), "ignore"),
               Button(">", "next") >>
    IN Call("edit_message_text", user_id, None, message_id,
            [kind |-> "QUESTION", item |-> item.text,
             options |-> [ix \in 1..Len(item.options) |->
                            <<ix - 1, item.options[ix]>>],
             note |-> annotation(item)],
            IF is_answered(item) THEN <<nav_buttons>>
            ELSE <<ans_buttons, nav_buttons>>)

\* mutant of wait_hours: rounds down
wait_hours_floor(wait_units) == wait_units \div UnitsPerHour

\* math.ceil(wait_seconds / 3600), the wait given in clock units
wait_hours(wait_units) ==
    IF wait_units % UnitsPerHour = 0
    THEN wait_units \div UnitsPerHour
    ELSE wait_units \div UnitsPerHour + 1

\* mutant of time_passed: counted from the start of the quiz
time_passed_since_created(quizpass, t) == t - quizpass.created_at

\* time_passed = now - quizpass.last_answer_at
time_passed(quizpass, t) == t - last_answer_at(quizpass)

\* time_has_to_pass = timedelta(hours=WAIT_HOURS_ON_FAIL)
time_has_to_pass == WAIT_HOURS_ON_FAIL * UnitsPerHour

\* mutant of on_start_quiz: everybody is let through
on_start_quiz_unchecked(ps, user_id, t) ==
    [ok |-> TRUE, raised |-> FALSE, calls |-> <<>>]

\* mutant of on_start_quiz: a passed user is let through once the cooldown is over
on_start_quiz_passed_cooldown(ps, user_id, t) ==
    LET quizpass == get_active_quizpass(ps, user_id)
    IN IF quizpass # NoPass /\ is_finished(quizpass)
       THEN IF time_passed(quizpass, t) < time_has_to_pass
            THEN IF has_passed(quizpass)
                 THEN [ok |-> FALSE, raised |-> FALSE,
                       calls |-> <<send_passed(user_id, quizpass)>>]
                 ELSE [ok |-> FALSE, raised |-> FALSE,
                       calls |-> <<send_failed(user_id, quizpass,
                            wait_hours(time_has_to_pass
                                        - time_passed(quizpass, t)))>>]
            ELSE [ok |-> TRUE, raised |-> FALSE, calls |-> <<>>]
       ELSE [ok |-> TRUE, raised |-> FALSE, calls |-> <<>>]

\* _on_start_quiz: whether the user may start, and the message sent if not;
\* `now - quizpass.last_answer_at` raises TypeError when no item of a finished
\* pass has an answered_at
on_start_quiz(ps, user_id, t) ==
    LET quizpass == get_active_quizpass(ps, user_id)
    IN IF quizpass # NoPass /\ is_finished(quizpass)
       THEN IF has_passed(quizpass)
            THEN [ok |-> FALSE, raised |-> FALSE,
                  calls |-> <<send_passed(user_id, quizpass)>>]
            ELSE IF last_answer_at(quizpass) = None
                 THEN [ok |-> FALSE, raised |-> TRUE, calls |-> <<>>]
            ELSE IF time_passed(quizpass, t) < time_has_to_pass
                 THEN [ok |-> FALSE, raised |-> FALSE,
                       calls |-> <<send_failed(user_id, quizpass,
                            wait_hours(time_has_to_pass
                                        - time_passed(quizpass, t)))>>]
                 ELSE [ok |-> TRUE, raised |-> FALSE, calls |-> <<>>]
       ELSE [ok |-> TRUE, raised |-> FALSE, calls |-> <<>>]

\* what a handler leaves behind: the tables, the calls made, whether it raised
Done(ps, cs) == [passes |-> ps, calls |-> cs, raised |-> FALSE]
Raised(ps, cs) == [passes |-> ps, calls |-> cs, raised |-> TRUE]

Replace(ps, old, new) == (ps \ {old}) \cup {new}

\* command_start
command_start(ps, user_id, chat_id, t) ==
    IF chat_id # user_id THEN Done(ps, <<>>)
    ELSE LET r == on_start_quiz(ps, user_id, t)
         IN IF r.raised THEN Raised(ps, r.calls)
            ELSE IF ~r.ok THEN Done(ps, r.calls)
            ELSE Done(ps, r.calls \o <<send_getting_started(chat_id)>>)

\* _generate_quizpass, given what random.sample returned
generate_quizpass(ps, user_id, questions, t) ==
    create_quizpass(ps, user_id, questions, CORRECT_ANSWERS_REQUIRED, t)

\* mutant of callback_query_start_quiz: always generates a new pass
callback_query_start_quiz_recreates(ps, user_id, message_id, questions, t) ==
    LET r == on_start_quiz(ps, user_id, t)
        cs == <<answer_callback_query>> \o r.calls
        new == generate_quizpass(ps, user_id, questions, t)
    IN IF r.raised THEN Raised(ps, cs)
       ELSE IF ~r.ok THEN Done(ps, cs)
       ELSE Done(ps \cup {new},
                 cs \o <<display_quizpass(message_id, user_id, new)>>)

\* callback_query_start_quiz
callback_query_start_quiz(ps, user_id, message_id, questions, t) ==
    LET r == on_start_quiz(ps, user_id, t)
        quizpass == get_active_quizpass(ps, user_id)
        cs == <<answer_callback_query>> \o r.calls
    IN IF r.raised THEN Raised(ps, cs)
       ELSE IF ~r.ok THEN Done(ps, cs)
       ELSE IF quizpass # NoPass /\ ~is_finished(quizpass)
            THEN IF current_item_pos(quizpass) = None THEN Raised(ps, cs)
                 ELSE Done(ps, cs \o
                        <<display_quizpass(message_id, user_id, quizpass)>>)
            ELSE LET new == generate_quizpass(ps, user_id, questions, t)
                 IN IF current_item_pos(new) = None
                    THEN Raised(ps \cup {new}, cs)
                    ELSE Done(ps \cup {new}, cs \o
                            <<display_quizpass(message_id, user_id, new)>>)

\* callback_query_start_quiz when the database fails in create_quizpass at
\* the commit after the first `commits` ones: db_session rolls back what is
\* not committed yet and re-raises
callback_query_start_quiz_commit_fails(ps, user_id, message_id, questions, t, commits) ==
    LET r == on_start_quiz(ps, user_id, t)
        quizpass == get_active_quizpass(ps, user_id)
        cs == <<answer_callback_query>> \o r.calls
    IN IF r.raised THEN Raised(ps, cs)
       ELSE IF ~r.ok THEN Done(ps, cs)
       ELSE IF quizpass # NoPass /\ ~is_finished(quizpass)
            THEN callback_query_start_quiz(ps, user_id, message_id,
                                           questions, t)
            ELSE IF commits = 0 THEN Raised(ps, cs)
                 ELSE Raised(ps \cup {create_quizpass_commits(ps, user_id,
                                questions, CORRECT_ANSWERS_REQUIRED, t,
                                commits)}, cs)

\* mutant of navigate: a finished pass is not walked any more
navigate_unfinished_only(ps, user_id, message_id, moved) ==
    LET quizpass == get_active_quizpass(ps, user_id)
        cs == <<answer_callback_query>>
    IN IF quizpass = NoPass THEN Done(ps, cs)
       ELSE IF is_finished(quizpass) THEN Done(ps, cs)
       ELSE LET ps2 == Replace(ps, quizpass, moved)
            IN IF current_item_pos(moved) = None THEN Raised(ps2, cs)
               ELSE Done(ps2, cs \o
                        <<display_quizpass(message_id, user_id, moved)>>)

\* callback_query_next / callback_query_prev, `move` being the pass method
navigate(ps, user_id, message_id, moved) ==
    LET quizpass == get_active_quizpass(ps, user_id)
        cs == <<answer_callback_query>>
    IN IF quizpass = NoPass THEN Done(ps, cs)
       ELSE LET ps2 == Replace(ps, quizpass, moved)
            IN IF current_item_pos(moved) = None THEN Raised(ps2, cs)
               ELSE Done(ps2, cs \o
                        <<display_quizpass(message_id, user_id, moved)>>)

callback_query_next(ps, user_id, message_id) ==
    LET quizpass == get_active_quizpass(ps, user_id)
    IN navigate(ps, user_id, message_id,
                IF quizpass = NoPass THEN NoPass ELSE move_to_next(quizpass))

callback_query_prev(ps, user_id, message_id) ==
    LET quizpass == get_active_quizpass(ps, user_id)
    IN navigate(ps, user_id, message_id,
                IF quizpass = NoPass THEN NoPass ELSE move_to_prev(quizpass))

\* mutant of may_answer: no guard
may_answer_always(item) == TRUE

\* the guard of callback_query_answer: an answered item is left alone
may_answer(item) == ~is_answered(item)

\* mutant of callback_query_answer: the pass is used without looking whether
\* there is one
callback_query_answer_unguarded(ps, user_id, message_id, answer, t) ==
    LET quizpass == get_active_quizpass(ps, user_id)
        cs == <<answer_callback_query>>
    IN IF quizpass = NoPass THEN Raised(ps, cs)
       ELSE IF current_item_pos(quizpass) = None THEN Raised(ps, cs)
       ELSE IF may_answer(current_item(quizpass))
                /\ set_answer_raises(current_item(quizpass), answer)
            THEN Raised(ps, cs)
       ELSE LET answered ==
                    IF may_answer(current_item(quizpass))
                    THEN [quizpass EXCEPT
                            !.quizitems[current_item_pos(quizpass)] =
                                set_answer(current_item(quizpass), answer, t)]
                    ELSE quizpass
                ps2 == Replace(ps, quizpass, answered)
                cs2 == cs \o <<display_quizpass(message_id, user_id, answered)>>
            IN IF is_finished(answered)
               THEN IF has_passed(answered)
                    THEN Done(ps2, cs2 \o
                            << send_passed(user_id, answered),
                               restrict_chat_member(user_id, TRUE) >>)
                    ELSE Done(ps2, cs2 \o
                            <<send_failed(user_id, answered,
                                          WAIT_HOURS_ON_FAIL)>>)
               ELSE Done(ps2, cs2)

\* callback_query_answer
callback_query_answer(ps, user_id, message_id, answer, t) ==
    LET quizpass == get_active_quizpass(ps, user_id)
        cs == <<answer_callback_query>>
    IN IF quizpass = NoPass THEN Done(ps, cs)
       ELSE IF current_item_pos(quizpass) = None THEN Raised(ps, cs)
       ELSE IF may_answer(current_item(quizpass))
                /\ set_answer_raises(current_item(quizpass), answer)
            THEN Raised(ps, cs)
       ELSE LET answered ==
                    IF may_answer(current_item(quizpass))
                    THEN [quizpass EXCEPT
                            !.quizitems[current_item_pos(quizpass)] =
                                set_answer(current_item(quizpass), answer, t)]
                    ELSE quizpass
                ps2 == Replace(ps, quizpass, answered)
                cs2 == cs \o <<display_quizpass(message_id, user_id, answered)>>
            IN IF is_finished(answered)
               THEN IF has_passed(answered)
                    THEN Done(ps2, cs2 \o
                            << send_passed(user_id, answered),
                               restrict_chat_member(user_id, TRUE) >>)
                    ELSE Done(ps2, cs2 \o
                            <<send_failed(user_id, answered,
                                          WAIT_HOURS_ON_FAIL)>>)
               ELSE Done(ps2, cs2)

\* send_message(GROUP_ID, messages.RESULT_SHARE, user, result, total)
send_result_share(user_id, quizpass) ==
    Call("send_message", GROUP_ID, None, None,
         [kind |-> "RESULT_SHARE", user |-> user_id,
          result |-> correct_given(quizpass),
          total |-> Len(quizpass.quizitems)],
         <<>>)

\* mutant of callback_query_share_result: the state of the pass is not looked at
callback_query_share_result_any_pass(ps, user_id) ==
    LET quizpass == get_active_quizpass(ps, user_id)
        cs == <<answer_callback_query>>
    IN IF quizpass = NoPass THEN Done(ps, cs)
       ELSE IF quizpass.result_shared THEN Done(ps, cs)
       ELSE Done(Replace(ps, quizpass, [quizpass EXCEPT !.result_shared = TRUE]),
                 cs \o <<send_result_share(user_id, quizpass)>>)

\* mutant of callback_query_share_result: result_shared is not looked at
callback_query_share_result_again(ps, user_id) ==
    LET quizpass == get_active_quizpass(ps, user_id)
        cs == <<answer_callback_query>>
    IN IF quizpass = NoPass THEN Done(ps, cs)
       ELSE IF ~(is_finished(quizpass) /\ has_passed(quizpass))
            THEN Done(ps, cs)
       ELSE Done(Replace(ps, quizpass, [quizpass EXCEPT !.result_shared = TRUE]),
                 cs \o <<send_result_share(user_id, quizpass)>>)

\* callback_query_share_result
callback_query_share_result(ps, user_id) ==
    LET quizpass == get_active_quizpass(ps, user_id)
        cs == <<answer_callback_query>>
    IN IF quizpass = NoPass THEN Done(ps, cs)
       ELSE IF ~(is_finished(quizpass) /\ has_passed(quizpass)
                    /\ ~quizpass.result_shared)
            THEN Done(ps, cs)
       ELSE Done(Replace(ps, quizpass, [quizpass EXCEPT !.result_shared = TRUE]),
                 cs \o <<send_result_share(user_id, quizpass)>>)

\* mutant of callback_query_unknown: the query is left unanswered
callback_query_unknown_silent(ps) == Done(ps, <<>>)

\* callback_query_ignore / callback_query_unknown
callback_query_ignore(ps) == Done(ps, <<answer_callback_query>>)
callback_query_unknown(ps) == Done(ps, <<answer_callback_query>>)

\* A handler whose `failing`-th call on the bot raises (the platform refuses
\* or times out): the calls before it are made, the exception leaves the
\* handler through db_session, whose rollback undoes what is not committed;
\* `stored` are the tables as committed when the call is made.
call_fails(r, failing, stored) ==
    IF r.raised \/ failing > Len(r.calls) THEN r
    ELSE Raised(stored, SubSeq(r.calls, 1, failing - 1))

\* callback_query_start_quiz: answer_callback_query comes before db_session,
\* the messages of _on_start_quiz before any write, the display after
\* create_quizpass has committed
callback_query_start_quiz_call_fails(ps, user_id, message_id, questions, t, failing) ==
    LET r == callback_query_start_quiz(ps, user_id, message_id, questions, t)
    IN call_fails(r, failing, IF failing = 1 THEN ps ELSE r.passes)

\* callback_query_next: the display comes after session.commit()
callback_query_next_call_fails(ps, user_id, message_id, failing) ==
    LET r == callback_query_next(ps, user_id, message_id)
    IN call_fails(r, failing, IF failing = 1 THEN ps ELSE r.passes)

\* callback_query_answer: the display, the result message and the unrestrict
\* come after session.commit()
callback_query_answer_call_fails(ps, user_id, message_id, answer, t, failing) ==
    LET r == callback_query_answer(ps, user_id, message_id, answer, t)
    IN call_fails(r, failing, IF failing = 1 THEN ps ELSE r.passes)

\* callback_query_share_result: the message to the group comes before
\* result_shared is set
callback_query_share_result_call_fails(ps, user_id, failing) ==
    LET r == callback_query_share_result(ps, user_id)
    IN call_fails(r, failing, ps)

\* callback_query_answer when the restrict_chat_member call that lifts the
\* restrictions raises
callback_query_answer_restrict_fails(ps, user_id, message_id, answer, t) ==
    LET r == callback_query_answer(ps, user_id, message_id, answer, t)
        lifts == Made(r.calls, "restrict_chat_member")
    IN IF lifts = {} THEN r
       ELSE callback_query_answer_call_fails(ps, user_id, message_id, answer,
                t, CHOOSE i \in lifts : \A j \in lifts : i <= j)

\* re.match(r'^answer_(\d+)$', data): the number, or None
answer_match(data) ==
    IF \E n \in 0..MaxAnswer : data = "answer_" \o ToString(n)
    THEN CHOOSE n \in 0..MaxAnswer : data = "answer_" \o ToString(n)
    ELSE None

\* callback_query: dispatch on callback_query.data
callback_query(ps, user_id, message_id, data, questions, t) ==
    IF data = "ignore" THEN callback_query_ignore(ps)
    ELSE IF data = "start_quiz"
         THEN callback_query_start_quiz(ps, user_id, message_id, questions, t)
    ELSE IF data = "next" THEN callback_query_next(ps, user_id, message_id)
    ELSE IF data = "prev" THEN callback_query_prev(ps, user_id, message_id)
    ELSE IF answer_match(data) # None
         THEN callback_query_answer(ps, user_id, message_id,
                                    answer_match(data), t)
    ELSE IF data = "share_result" THEN callback_query_share_result(ps, user_id)
    ELSE callback_query_unknown(ps)

\* ------------------------------------------------- bot.py: group handlers
\* the user object the platform attaches to an update
first_name(user_id) == "U" \o ToString(user_id)
User(user_id) == [id |-> user_id, first_name |-> first_name(user_id)]
NoUser == [id |-> None]

\* a job of updater.job_queue: run_once(job_kick_if_inactive, when, context)
Job(user_id, due) == [context |-> user_id, due |-> due]

\* the job the job queue's thread is running: none
NoJob == [context |-> None]

\* the bag that holds each element of the sequence once per occurrence
SeqToBag(seq) ==
    [x \in {seq[i] : i \in 1..Len(seq)} |->
        Cardinality({i \in 1..Len(seq) : seq[i] = x})]

delete_message(chat_id, message_id) ==
    Call("delete_message", chat_id, None, message_id, NoText, <<>>)

kick_chat_member(user_id) ==
    Call("kick_chat_member", GROUP_ID, user_id, None, NoText, <<>>)

unban_chat_member(user_id) ==
    Call("unban_chat_member", GROUP_ID, user_id, None, NoText, <<>>)

get_chat_member(user_id) ==
    Call("get_chat_member", GROUP_ID, user_id, None, NoText, <<>>)

\* mutant of allowed_to_chat: the pass need not be finished
allowed_to_chat_unfinished(quizpass) ==
    quizpass # NoPass /\ has_passed(quizpass)

\* new_chat_members: allowed_to_chat of one joining member
allowed_to_chat(quizpass) ==
    quizpass # NoPass /\ is_finished(quizpass) /\ has_passed(quizpass)

\* new_chat_members: the members restricted, the jobs scheduled for them and
\* the join message deleted
new_chat_members(ps, js, chat_id, message_id, members, t) ==
    LET muted == SelectSeq(members,
                    LAMBDA m : ~allowed_to_chat(get_active_quizpass(ps, m)))
    IN [passes |-> ps,
        calls |-> [i \in 1..Len(muted) |->
                    Call("restrict_chat_member", chat_id, muted[i], None,
                         [kind |-> "", can_send_message |-> FALSE], <<>>)]
                  \o (IF DELETE_JOIN_MESSAGES
                      THEN <<delete_message(chat_id, message_id)>>
                      ELSE <<>>),
        jobs |-> js (+) SeqToBag([i \in 1..Len(muted) |->
                            Job(muted[i], t + KICK_INACTIVE_AFTER)]),
        raised |-> FALSE]

\* new_chat_members when restrict_chat_member raises for the members in
\* `refused` (admins of the group, for one): the exception leaves the loop at
\* the first such member who is to be muted, before its run_once, before the
\* members after it and before the join message is deleted
new_chat_members_restrict_fails(ps, js, chat_id, message_id, members, t, refused) ==
    LET muted == SelectSeq(members,
                    LAMBDA m : ~allowed_to_chat(get_active_quizpass(ps, m)))
        failing == {i \in 1..Len(muted) : muted[i] \in refused}
        first == CHOOSE i \in failing : \A j \in failing : i <= j
    IN IF failing = {}
       THEN new_chat_members(ps, js, chat_id, message_id, members, t)
       ELSE [passes |-> ps,
             calls |-> [i \in 1..(first - 1) |->
                         Call("restrict_chat_member", chat_id, muted[i], None,
                              [kind |-> "", can_send_message |-> FALSE], <<>>)],
             jobs |-> js (+) SeqToBag([i \in 1..(first - 1) |->
                                 Job(muted[i], t + KICK_INACTIVE_AFTER)]),
             raised |-> TRUE]

\* left_chat_member
left_chat_member(ps, chat_id, message_id) ==
    Done(ps, IF DELETE_LEAVE_MESSAGES
             THEN <<delete_message(chat_id, message_id)>>
             ELSE <<>>)

\* mutant of job_kick_if_inactive: no look at the passes
job_kick_if_inactive_always(ps, user_id) ==
    Done(ps, <<kick_chat_member(user_id), unban_chat_member(user_id)>>)

\* mutant of job_kick_if_inactive: kicks unless the pass is finished
job_kick_if_inactive_unfinished(ps, user_id) ==
    LET quizpass == get_active_quizpass(ps, user_id)
    IN IF quizpass = NoPass \/ ~is_finished(quizpass)
       THEN Done(ps, <<kick_chat_member(user_id), unban_chat_member(user_id)>>)
       ELSE Done(ps, <<>>)

\* job_kick_if_inactive, user_id being job.context
job_kick_if_inactive(ps, user_id) ==
    LET quizpass == get_active_quizpass(ps, user_id)
    IN IF quizpass = NoPass
       THEN Done(ps, <<kick_chat_member(user_id), unban_chat_member(user_id)>>)
       ELSE Done(ps, <<>>)

\* job_kick_if_inactive as the job queue's thread runs it, next to the
\* dispatcher's thread: first the query for the user's pass ...
job_get_active_quizpass(ps, user_id) ==
    [context |-> user_id, quizpass |-> get_active_quizpass(ps, user_id)]

\* ... then, on what the query returned, the kick
job_kick(ps, job) ==
    IF job.quizpass = NoPass
    THEN Done(ps, << kick_chat_member(job.context),
                     unban_chat_member(job.context) >>)
    ELSE Done(ps, <<>>)

\* the decimal digits int() reads
Digits == <<"0", "1", "2", "3", "4", "5", "6", "7", "8", "9">>
IsDigit(c) == \E d \in 1..Len(Digits) : Digits[d] = c
DigitValue(c) == (CHOOSE d \in 1..Len(Digits) : Digits[d] = c) - 1

\* str.strip() as int() applies it: the string without the spaces around it
RECURSIVE strip(_)
strip(args) ==
    IF args = <<>> THEN args
    ELSE IF Head(args) = " " THEN strip(Tail(args))
    ELSE IF args[Len(args)] = " " THEN strip(SubSeq(args, 1, Len(args) - 1))
    ELSE args

\* int(args) for a string of digits, letters and spaces: whether it raises
\* ValueError
int_raises(args) ==
    strip(args) = <<>> \/ \E i \in 1..Len(strip(args)) : ~IsDigit(strip(args)[i])

\* the value of a string of digits
RECURSIVE digits_value(_)
digits_value(digits) ==
    IF digits = <<>> THEN 0
    ELSE 10 * digits_value(SubSeq(digits, 1, Len(digits) - 1))
            + DigitValue(digits[Len(digits)])

\* int(args)
int(args) == digits_value(strip(args))

\* text.split(" ", 1): the text cut at its first space
split_once(text) ==
    LET spaces == {i \in 1..Len(text) : text[i] = " "}
    IN IF spaces = {} THEN <<text>>
       ELSE LET at == CHOOSE i \in spaces : \A j \in spaces : i <= j
            IN <<SubSeq(text, 1, at - 1), SubSeq(text, at + 1, Len(text))>>

NoTarget == [id |-> None]

\* mutant of get_target: the numeric argument is tried first
get_target_id_first(message) ==
    LET users == {i \in 1..Len(message.entities) :
                    message.entities[i].user # NoUser}
        parts == split_once(message.text)
    IN IF Len(parts) = 2 /\ ~int_raises(parts[2])
       THEN [id |-> int(parts[2]), name |-> parts[2]]
       ELSE IF users # {}
       THEN LET first == CHOOSE i \in users : \A j \in users : i <= j
            IN [id |-> message.entities[first].user.id,
                name |-> message.entities[first].user.first_name]
       ELSE IF message.reply_to_message # NoUser
       THEN [id |-> message.reply_to_message.id,
             name |-> message.reply_to_message.first_name]
       ELSE NoTarget

\* _get_target: (id, name) of the targeted user, or None
get_target(message) ==
    LET users == {i \in 1..Len(message.entities) :
                    message.entities[i].user # NoUser}
        parts == split_once(message.text)
    IN IF users # {}
       THEN LET first == CHOOSE i \in users : \A j \in users : i <= j
            IN [id |-> message.entities[first].user.id,
                name |-> message.entities[first].user.first_name]
       ELSE IF message.reply_to_message # NoUser
       THEN [id |-> message.reply_to_message.id,
             name |-> message.reply_to_message.first_name]
       ELSE IF Len(parts) = 2 /\ ~int_raises(parts[2])
       THEN [id |-> int(parts[2]), name |-> parts[2]]
       ELSE NoTarget

\* mutant of is_admin: every member of the group counts
is_admin_member(status) == status \in {"creator", "admin", "member"}

\* _is_admin, given the status get_chat_member reported
is_admin(status) == status \in {"creator", "admin"}

\* _display_user(id, first_name)
display_user(id, name) == [id |-> id, name |-> name]

\* send_message(GROUP_ID, text, reply_to_message_id=message_id)
send_reply(message_id, text) ==
    Call("send_message", GROUP_ID, None, message_id, text, <<>>)

send_unauthorized(message_id) ==
    send_reply(message_id, [kind |-> "UNAUTHORIZED"])

send_no_target(message_id) ==
    send_reply(message_id, [kind |-> "NO_TARGET"])

send_kicked(message_id, target) ==
    send_reply(message_id,
               [kind |-> "KICKED", user |-> display_user(target.id, target.name)])

send_banned(message_id, target) ==
    send_reply(message_id,
               [kind |-> "BANNED", user |-> display_user(target.id, target.name)])

\* mutant of delete_active: the pass is left in storage
delete_active_skipped(ps, target_id) == ps

\* mutant of delete_active: every pass of the target goes
delete_active_all(ps, target_id) == {p \in ps : p.user_id # target_id}

\* get_active_quizpass(session, target_id), session.delete(quizpass) if any
delete_active(ps, target_id) ==
    LET quizpass == get_active_quizpass(ps, target_id)
    IN IF quizpass # NoPass THEN ps \ {quizpass} ELSE ps

\* mutant of command_kick: the target is unpacked without the check
command_kick_unchecked(ps, message, status) ==
    LET cs == <<get_chat_member(message.from_user.id)>>
        target == get_target(message)
    IN IF ~is_admin(status)
       THEN Done(ps, cs \o <<send_unauthorized(message.message_id)>>)
       ELSE IF target = NoTarget
       THEN Raised(ps, cs)
       ELSE Done(delete_active(ps, target.id),
                 cs \o << kick_chat_member(target.id),
                          unban_chat_member(target.id),
                          send_kicked(message.message_id, target) >>)

\* command_kick, `status` being what get_chat_member reports for the sender
command_kick(ps, message, status) ==
    LET cs == <<get_chat_member(message.from_user.id)>>
        target == get_target(message)
    IN IF ~is_admin(status)
       THEN Done(ps, cs \o <<send_unauthorized(message.message_id)>>)
       ELSE IF target = NoTarget
       THEN Done(ps, cs \o <<send_no_target(message.message_id)>>)
       ELSE Done(delete_active(ps, target.id),
                 cs \o << kick_chat_member(target.id),
                          unban_chat_member(target.id),
                          send_kicked(message.message_id, target) >>)

\* command_kickme
command_kickme(ps, message) ==
    LET target == [id |-> message.from_user.id,
                   name |-> message.from_user.first_name]
    IN Done(delete_active(ps, target.id),
            << kick_chat_member(target.id),
               unban_chat_member(target.id),
               send_kicked(message.message_id, target) >>)

\* command_ban
command_ban(ps, message, status) ==
    LET cs == <<get_chat_member(message.from_user.id)>>
        target == get_target(message)
    IN IF ~is_admin(status)
       THEN Done(ps, cs \o <<send_unauthorized(message.message_id)>>)
       ELSE IF target = NoTarget
       THEN Done(ps, cs \o <<send_no_target(message.message_id)>>)
       ELSE Done(delete_active(ps, target.id),
                 cs \o << kick_chat_member(target.id),
                          send_banned(message.message_id, target) >>)

\* ---------------------------------------------------------------- actions
\* the event handled last; `calls` are the bot calls its handler made;
\* `started` are the users for whom a pass has ever been created, `removed`
\* the users a removal command was carried out on and who got no new pass since
Event(kind, user_id, data, message_id, raised) ==
    [kind |-> kind, user |-> user_id, data |-> data,
     message_id |-> message_id, raised |-> raised]

Init ==
    /\ passes = {}
    /\ now = 0
    /\ ev = Event("init", None, "", None, FALSE)
    /\ calls = <<>>
    /\ jobs = EmptyBag
    /\ started = {}
    /\ removed = {}
    /\ running = NoJob

\* Each Press action is one callback query arriving from a user, handled by
\* callback_query to completion.
\* the 'Start the quiz' button
PressStartQuiz ==
    \E user_id \in Users, message_id \in MessageIds,
       questions \in Samples :
        \E r \in {callback_query(passes, user_id, message_id, "start_quiz",
                                 questions, now)} :
           /\ Cardinality(r.passes) <= MaxPasses
           /\ passes' = r.passes
           /\ calls' = r.calls
           /\ ev' = Event("callback_query", user_id, "start_quiz", message_id,
                          r.raised)
           /\ started' = started \cup {p.user_id : p \in r.passes \ passes}
           /\ removed' = removed \ {p.user_id : p \in r.passes \ passes}
           /\ UNCHANGED <<now, jobs, running>>

\* the 'Start the quiz' button, the database failing while the pass is created
PressStartQuizCommitFails ==
    \E user_id \in Users, message_id \in MessageIds,
       questions \in Samples :
        \E commits \in 0..(commits_total(questions) - 1) :
        \E r \in {callback_query_start_quiz_commit_fails(passes, user_id,
                        message_id, questions, now, commits)} :
           /\ r.raised
           /\ Cardinality(r.passes) <= MaxPasses
           /\ passes' = r.passes
           /\ calls' = r.calls
           /\ ev' = Event("callback_query", user_id, "start_quiz", message_id,
                          r.raised)
           /\ started' = started \cup {p.user_id : p \in r.passes \ passes}
           /\ removed' = removed \ {p.user_id : p \in r.passes \ passes}
           /\ UNCHANGED <<now, jobs, running>>

\* the '>' button
PressNext ==
    \E user_id \in Users, message_id \in MessageIds :
        \E r \in {callback_query(passes, user_id, message_id, "next",
                                 <<>>, now)} :
           /\ passes' = r.passes
           /\ calls' = r.calls
           /\ ev' = Event("callback_query", user_id, "next", message_id,
                          r.raised)
           /\ UNCHANGED <<now, jobs, started, removed, running>>

\* the '<' button
PressPrev ==
    \E user_id \in Users, message_id \in MessageIds :
        \E r \in {callback_query(passes, user_id, message_id, "prev",
                                 <<>>, now)} :
           /\ passes' = r.passes
           /\ calls' = r.calls
           /\ ev' = Event("callback_query", user_id, "prev", message_id,
                          r.raised)
           /\ UNCHANGED <<now, jobs, started, removed, running>>

\* an answer_<N> button
PressAnswer ==
    \E user_id \in Users, message_id \in MessageIds,
       data \in {d \in CallbackData : answer_match(d) # None} :
        \E r \in {callback_query(passes, user_id, message_id, data,
                                 <<>>, now)} :
           /\ passes' = r.passes
           /\ calls' = r.calls
           /\ ev' = Event("callback_query", user_id, data, message_id,
                          r.raised)
           /\ UNCHANGED <<now, jobs, started, removed, running>>

\* the 'Share the result' button
PressShareResult ==
    \E user_id \in Users, message_id \in MessageIds :
        \E r \in {callback_query(passes, user_id, message_id, "share_result",
                                 <<>>, now)} :
           /\ passes' = r.passes
           /\ calls' = r.calls
           /\ ev' = Event("callback_query", user_id, "share_result", message_id,
                          r.raised)
           /\ UNCHANGED <<now, jobs, started, removed, running>>

\* the position button
PressIgnore ==
    \E user_id \in Users, message_id \in MessageIds :
        \E r \in {callback_query(passes, user_id, message_id, "ignore",
                                 <<>>, now)} :
           /\ passes' = r.passes
           /\ calls' = r.calls
           /\ ev' = Event("callback_query", user_id, "ignore", message_id,
                          r.raised)
           /\ UNCHANGED <<now, jobs, started, removed, running>>

\* data no handler knows
PressUnknown ==
    \E user_id \in Users, message_id \in MessageIds :
        \E r \in {callback_query(passes, user_id, message_id, "bogus",
                                 <<>>, now)} :
           /\ passes' = r.passes
           /\ calls' = r.calls
           /\ ev' = Event("callback_query", user_id, "bogus", message_id,
                          r.raised)
           /\ UNCHANGED <<now, jobs, started, removed, running>>

\* /start, sent in the private chat or in the group
CommandStart ==
    \E user_id \in Users : \E chat_id \in {user_id, GROUP_ID} :
        \E r \in {command_start(passes, user_id, chat_id, now)} :
           /\ passes' = r.passes
           /\ calls' = r.calls
           /\ ev' = Event("command_start", user_id,
                          IF chat_id = user_id THEN "pm" ELSE "group",
                          None, r.raised)
           /\ UNCHANGED <<now, jobs, started, removed, running>>

\* time passes
Tick ==
    /\ now < MaxTime
    /\ now' = now + 1
    /\ ev' = Event("tick", None, "", None, FALSE)
    /\ calls' = <<>>
    /\ UNCHANGED <<passes, jobs, started, removed, running>>

\* Each CallFails action is the press of the same name with one of the calls
\* its handler makes on the bot raising.
PressStartQuizCallFails ==
    \E user_id \in Users, message_id \in MessageIds,
       questions \in Samples :
        \E r0 \in {callback_query_start_quiz(passes, user_id, message_id,
                                             questions, now)} :
        \E failing \in 1..Len(r0.calls) :
        \E r \in {callback_query_start_quiz_call_fails(passes, user_id,
                        message_id, questions, now, failing)} :
           /\ ~r0.raised
           /\ Cardinality(r.passes) <= MaxPasses
           /\ passes' = r.passes
           /\ calls' = r.calls
           /\ ev' = Event("callback_query", user_id, "start_quiz", message_id,
                          r.raised)
           /\ started' = started \cup {p.user_id : p \in r.passes \ passes}
           /\ removed' = removed \ {p.user_id : p \in r.passes \ passes}
           /\ UNCHANGED <<now, jobs, running>>

PressNextCallFails ==
    \E user_id \in Users, message_id \in MessageIds :
        \E r0 \in {callback_query_next(passes, user_id, message_id)} :
        \E failing \in 1..Len(r0.calls) :
        \E r \in {callback_query_next_call_fails(passes, user_id, message_id,
                                                  failing)} :
           /\ ~r0.raised
           /\ passes' = r.passes
           /\ calls' = r.calls
           /\ ev' = Event("callback_query", user_id, "next", message_id,
                          r.raised)
           /\ UNCHANGED <<now, jobs, started, removed, running>>

PressAnswerCallFails ==
    \E user_id \in Users, message_id \in MessageIds,
       data \in {d \in CallbackData : answer_match(d) # None} :
        \E r0 \in {callback_query_answer(passes, user_id, message_id,
                                          answer_match(data), now)} :
        \E failing \in 1..Len(r0.calls) :
        \E r \in {callback_query_answer_call_fails(passes, user_id,
                        message_id, answer_match(data), now, failing)} :
           /\ ~r0.raised
           /\ passes' = r.passes
           /\ calls' = r.calls
           /\ ev' = Event("callback_query", user_id, data, message_id,
                          r.raised)
           /\ UNCHANGED <<now, jobs, started, removed, running>>

PressShareResultCallFails ==
    \E user_id \in Users, message_id \in MessageIds :
        \E r0 \in {callback_query_share_result(passes, user_id)} :
        \E failing \in 1..Len(r0.calls) :
        \E r \in {callback_query_share_result_call_fails(passes, user_id,
                                                          failing)} :
           /\ ~r0.raised
           /\ passes' = r.passes
           /\ calls' = r.calls
           /\ ev' = Event("callback_query", user_id, "share_result",
                          message_id, r.raised)
           /\ UNCHANGED <<now, jobs, started, removed, running>>

\* the member lists of a join message: one or two distinct users
MemberLists ==
    {<<u>> : u \in Users}
        \cup ({<<u, v>> : u, v \in Users} \ {<<u, u>> : u \in Users})

\* members join the group
NewChatMembers ==
    \E members \in MemberLists, message_id \in MessageIds :
        \E r \in {new_chat_members(passes, jobs, GROUP_ID, message_id,
                                   members, now)} :
           /\ BagCardinality(r.jobs) <= MaxJobs
           /\ passes' = r.passes
           /\ calls' = r.calls
           /\ jobs' = r.jobs
           /\ ev' = Event("new_chat_members", None, members, message_id,
                          r.raised)
           /\ UNCHANGED <<now, started, removed, running>>

\* the member lists of a join message with a user who takes no quiz in it
JoinLists ==
    {<<u>> : u \in Users \cup Senders}
        \cup {<<u, v>> : u \in Users, v \in Senders}
        \cup {<<v, u>> : u \in Users, v \in Senders}

\* members join the group, the platform refusing to restrict some of them
NewChatMembersRestrictFails ==
    \E members \in JoinLists, message_id \in MessageIds :
        \E refused \in {{members[i]} : i \in 1..Len(members)} :
        \E r \in {new_chat_members_restrict_fails(passes, jobs, GROUP_ID,
                        message_id, members, now, refused)} :
           /\ r.raised
           /\ BagCardinality(r.jobs) <= MaxJobs
           /\ passes' = r.passes
           /\ calls' = r.calls
           /\ jobs' = r.jobs
           /\ ev' = [kind |-> "new_chat_members", user |-> None,
                     data |-> members, message_id |-> message_id,
                     raised |-> r.raised, refused |-> refused]
           /\ UNCHANGED <<now, started, removed, running>>

\* an answer_<N> button, the platform refusing to lift the restrictions
PressAnswerRestrictFails ==
    \E user_id \in Users, message_id \in MessageIds,
       data \in {d \in CallbackData : answer_match(d) # None} :
        \E r \in {callback_query_answer_restrict_fails(passes, user_id,
                        message_id, answer_match(data), now)} :
           /\ r.raised
           /\ Made(r.calls, "send_message") # {}
           /\ passes' = r.passes
           /\ calls' = r.calls
           /\ ev' = [kind |-> "callback_query", user |-> user_id,
                     data |-> data, message_id |-> message_id,
                     raised |-> r.raised, refused |-> {user_id}]
           /\ UNCHANGED <<now, jobs, started, removed, running>>

\* a member leaves the group
LeftChatMember ==
    \E user_id \in Users, message_id \in MessageIds :
        \E r \in {left_chat_member(passes, GROUP_ID, message_id)} :
           /\ passes' = r.passes
           /\ calls' = r.calls
           /\ ev' = Event("left_chat_member", user_id, "", message_id,
                          r.raised)
           /\ UNCHANGED <<now, jobs, started, removed, running>>

\* the job queue runs a job that is due
JobKickIfInactive ==
    \E job \in BagToSet(jobs) :
        /\ job.due <= now
        /\ \E r \in {job_kick_if_inactive(passes, job.context)} :
           /\ passes' = r.passes
           /\ calls' = r.calls
           /\ jobs' = jobs (-) SetToBag({job})
           /\ ev' = Event("job_kick_if_inactive", job.context, "", None,
                          r.raised)
           /\ UNCHANGED <<now, started, removed, running>>

\* the job queue's thread takes a job that is due and queries the user's pass
JobQueriesPass ==
    \E job \in BagToSet(jobs) :
        /\ running = NoJob
        /\ job.due <= now
        /\ running' = job_get_active_quizpass(passes, job.context)
        /\ jobs' = jobs (-) SetToBag({job})
        /\ calls' = <<>>
        /\ ev' = Event("job_kick_if_inactive", job.context, "query", None,
                       FALSE)
        /\ UNCHANGED <<passes, now, started, removed>>

\* the job queue's thread goes on from the query to the kick
JobKicks ==
    /\ running # NoJob
    /\ \E r \in {job_kick(passes, running)} :
        /\ passes' = r.passes
        /\ calls' = r.calls
        /\ ev' = Event("job_kick_if_inactive", running.context, "kick", None,
                       r.raised)
    /\ running' = NoJob
    /\ UNCHANGED <<now, jobs, started, removed>>

\* a message with a command, sent to the group
Entity(user) == [user |-> user]
Message(user_id, message_id, text, entities, reply_to_message) ==
    [chat_id |-> GROUP_ID, from_user |-> User(user_id),
     message_id |-> message_id, text |-> text, entities |-> entities,
     reply_to_message |-> reply_to_message]

\* ChatMember.status as get_chat_member reports it
Statuses == {"creator", "admin", "member"}

\* the command messages sent to the group: without a target, with an id,
\* with a mention next to an id, with a reply next to a word
GroupMessages(command) ==
    {Message(user_id, message_id, text[1], text[2], text[3]) :
        user_id \in Senders, message_id \in MessageIds,
        text \in
            {<< <<command>>, <<>>, NoUser >>,
             << <<command, " ", "2">>, <<>>, NoUser >>}
            \cup {<< <<command, " ", ToString(u)>>, <<>>, NoUser >> :
                    u \in Users}
            \cup {<< <<command, " ", "2">>,
                     <<Entity(NoUser), Entity(User(u))>>, NoUser >> :
                    u \in Users}
            \cup {<< <<command, " ", "x">>, <<>>, User(u) >> : u \in Users}}

\* /kick
CommandKick ==
    \E message \in GroupMessages("/kick"), status \in Statuses :
        \E r \in {command_kick(passes, message, status)} :
           /\ passes' = r.passes
           /\ calls' = r.calls
           /\ ev' = Event("command_kick", message.from_user.id,
                          [status |-> status, message |-> message],
                          message.message_id, r.raised)
           /\ removed' = removed \cup
                {u \in Users : MadeFor(r.calls, "kick_chat_member", u) # {}}
           /\ UNCHANGED <<now, jobs, started, running>>

\* /kickme
CommandKickme ==
    \E user_id \in Users, message_id \in MessageIds :
        \E r \in {command_kickme(passes,
                    Message(user_id, message_id, <<"/kickme">>, <<>>, NoUser))} :
           /\ passes' = r.passes
           /\ calls' = r.calls
           /\ ev' = Event("command_kickme", user_id, "", message_id, r.raised)
           /\ removed' = removed \cup
                {u \in Users : MadeFor(r.calls, "kick_chat_member", u) # {}}
           /\ UNCHANGED <<now, jobs, started, running>>

\* /ban
CommandBan ==
    \E message \in GroupMessages("/ban"), status \in Statuses :
        \E r \in {command_ban(passes, message, status)} :
           /\ passes' = r.passes
           /\ calls' = r.calls
           /\ ev' = Event("command_ban", message.from_user.id,
                          [status |-> status, message |-> message],
                          message.message_id, r.raised)
           /\ removed' = removed \cup
                {u \in Users : MadeFor(r.calls, "kick_chat_member", u) # {}}
           /\ UNCHANGED <<now, jobs, started, running>>

Next ==
    \/ PressStartQuiz
    \/ PressNext
    \/ PressPrev
    \/ PressAnswer
    \/ PressShareResult
    \/ PressIgnore
    \/ PressUnknown
    \/ CommandStart
    \/ Tick

Spec == Init /\ [][Next]_vars

\* --------------------------------------------------------- the group side
\* The handlers of the group's membership events (joins, leaves, the
\* inactivity job, removals by /kick and /kickme), next to the presses that
\* create, walk and answer a quiz pass.
NextGroup ==
    \/ PressStartQuiz
    \/ PressNext
    \/ PressAnswer
    \/ NewChatMembers
    \/ LeftChatMember
    \/ JobKickIfInactive
    \/ CommandKick
    \/ CommandKickme
    \/ Tick

SpecGroup == Init /\ [][NextGroup]_vars

\* ------------------------------------------------- removal and rejoin
\* Runs long enough for a failed pass to be superseded after the cooldown,
\* the user to be removed and to join again, and the job of that join to
\* become due.  Time goes on up to MaxLate and the job queue runs every job
\* that is due: run_once jobs are run by the queue's own thread as soon as
\* their time has come.
TickLate ==
    /\ now < MaxLate
    /\ now' = now + 1
    /\ ev' = Event("tick", None, "", None, FALSE)
    /\ calls' = <<>>
    /\ UNCHANGED <<passes, jobs, started, removed, running>>

NextRejoin ==
    \/ PressStartQuiz
    \/ PressNext
    \/ PressAnswer
    \/ NewChatMembers
    \/ JobKickIfInactive
    \/ CommandKickme
    \/ TickLate

SpecRejoin ==
    /\ Init
    /\ [][NextRejoin]_vars
    /\ WF_vars(TickLate)
    /\ WF_vars(JobKickIfInactive)

\* The moderator commands (/kick, /ban, and /kickme), next to the presses
\* that create, walk and answer a quiz pass.
NextCommands ==
    \/ PressStartQuiz
    \/ PressNext
    \/ PressAnswer
    \/ CommandKick
    \/ CommandKickme
    \/ CommandBan
    \/ Tick

SpecCommands == Init /\ [][NextCommands]_vars

\* The presses and the group's membership events, the database failing in
\* some of the creations of a pass.
NextCommits ==
    \/ PressStartQuiz
    \/ PressStartQuizCommitFails
    \/ PressNext
    \/ PressAnswer
    \/ NewChatMembers
    \/ JobKickIfInactive
    \/ Tick

SpecCommits == Init /\ [][NextCommits]_vars

\* The presses, each with and without a call on the bot that raises.
NextCalls ==
    \/ PressStartQuiz
    \/ PressStartQuizCallFails
    \/ PressNext
    \/ PressNextCallFails
    \/ PressAnswer
    \/ PressAnswerCallFails
    \/ PressShareResult
    \/ PressShareResultCallFails
    \/ Tick

SpecCalls == Init /\ [][NextCalls]_vars

\* The presses that create, walk and answer a quiz pass and the joins, the
\* platform refusing some of the restrict_chat_member calls.
NextRestrict ==
    \/ PressStartQuiz
    \/ PressNext
    \/ PressAnswer
    \/ PressAnswerRestrictFails
    \/ NewChatMembers
    \/ NewChatMembersRestrictFails

SpecRestrict == Init /\ [][NextRestrict]_vars

\* The dispatcher's thread handling joins and presses while the job queue's
\* thread runs the inactivity jobs.
NextThreads ==
    \/ PressStartQuiz
    \/ PressNext
    \/ NewChatMembers
    \/ JobQueriesPass
    \/ JobKicks
    \/ Tick

SpecThreads == Init /\ [][NextThreads]_vars

\* ------------------------------------------------ next to another user
\* The quiz of a user while the pass of another user, who started the quiz
\* before, is in storage.
OthersInit ==
    /\ \E user_id \in Senders, questions \in Samples :
            passes = {generate_quizpass({}, user_id, questions, 0)}
    /\ now = 0
    /\ ev = Event("init", None, "", None, FALSE)
    /\ calls = <<>>
    /\ jobs = EmptyBag
    /\ started = Senders
    /\ removed = {}
    /\ running = NoJob

NextOthers ==
    \/ CommandStart
    \/ PressStartQuiz
    \/ PressNext
    \/ PressAnswer
    \/ CommandKickme
    \/ Tick

SpecOthers == OthersInit /\ [][NextOthers]_vars

\* ------------------------------------------------- presses without a pass
\* The quiz buttons pressed by a user who has no pass: before their first
\* start, after /kickme deleted their pass, the tables empty or holding
\* another user's pass.
NoPassInit ==
    /\ passes \in {{}} \cup
            {{generate_quizpass({}, user_id, questions, 0)} :
                user_id \in Senders, questions \in Samples}
    /\ now = 0
    /\ ev = Event("init", None, "", None, FALSE)
    /\ calls = <<>>
    /\ jobs = EmptyBag
    /\ started = {p.user_id : p \in passes}
    /\ removed = {}
    /\ running = NoJob

NextNoPass ==
    \/ PressStartQuiz
    \/ PressNext
    \/ PressPrev
    \/ PressAnswer
    \/ PressShareResult
    \/ CommandKickme
    \/ Tick

SpecNoPass == NoPassInit /\ [][NextNoPass]_vars

\* ------------------------------------------------- load_questions, direct
\* load_questions applied to a questions file of up to MaxDicts questions,
\* each with one or two options and an answer below, within or above them.
QuestionDicts ==
    UNION {{[n \in 1..len |-> [question |-> n, options |-> d[n][1],
                                answer |-> d[n][2]]] :
                d \in [1..len -> {<<"a">>, <<"a", "b">>} \X (-1..2)]} :
            len \in 0..MaxDicts}

LoadInit ==
    /\ passes = {}
    /\ now = 0
    /\ ev \in {[kind |-> "question_dicts", question_dicts |-> ds] :
                    ds \in QuestionDicts}
    /\ calls = <<>>
    /\ jobs = EmptyBag
    /\ started = {}
    /\ removed = {}
    /\ running = NoJob

\* load_questions(path)
CallLoadQuestions ==
    /\ ev.kind = "question_dicts"
    /\ ev' = [kind |-> "load_questions", question_dicts |-> ev.question_dicts,
              result |-> load_questions(ev.question_dicts)]
    /\ UNCHANGED <<passes, now, calls, jobs, started, removed, running>>

LoadNext == CallLoadQuestions

SpecLoad == LoadInit /\ [][LoadNext]_vars

\* ---------------------------------------------------- _get_target, direct
\* _get_target applied to a command message: texts without an argument, with
\* an empty, numeric, non-numeric or two-word argument; entity lists without
\* and with users; with and without a replied-to message.
TargetUsers == {1, 2}
TargetMessages ==
    {Message(2, 7, text, entities, reply_to_message) :
        text \in {<<"/kick">>, <<"/kick", " ">>}
            \cup {<<"/kick", " ">> \o arg :
                    arg \in {<<"1">>, <<"2">>, <<"x">>, <<"1", "2">>,
                             <<"0", "2">>, <<"1", "x">>, <<"1", " ", "2">>}},
        entities \in {<<>>, <<Entity(NoUser)>>}
            \cup {<<Entity(User(u))>> : u \in TargetUsers}
            \cup {<<Entity(NoUser), Entity(User(u))>> : u \in TargetUsers}
            \cup {<<Entity(User(u)), Entity(User(v))>> : u, v \in TargetUsers},
        reply_to_message \in {NoUser} \cup {User(u) : u \in TargetUsers}}

TargetInit ==
    /\ passes = {}
    /\ now = 0
    /\ ev \in {[kind |-> "message", message |-> m] : m \in TargetMessages}
    /\ calls = <<>>
    /\ jobs = EmptyBag
    /\ started = {}
    /\ removed = {}
    /\ running = NoJob

\* self._get_target(update)
CallGetTarget ==
    /\ ev.kind = "message"
    /\ ev' = [kind |-> "get_target", message |-> ev.message,
              target |-> get_target(ev.message)]
    /\ UNCHANGED <<passes, now, calls, jobs, started, removed, running>>

TargetNext == CallGetTarget

SpecTarget == TargetInit /\ [][TargetNext]_vars

\* ------------------------------------------------- the models API, direct
\* The methods of QuizPass and QuizItem called directly on one stored pass,
\* without the bot's handlers in between.
ModelsInit ==
    /\ \E questions \in Samples :
            passes = {create_quizpass({}, 1, questions,
                                      CORRECT_ANSWERS_REQUIRED, 0)}
    /\ now = 0
    /\ ev = [kind |-> "init"]
    /\ calls = <<>>
    /\ jobs = EmptyBag
    /\ started = {}
    /\ removed = {}
    /\ running = NoJob

\* item.set_answer(answer) on any item of the pass
CallSetAnswer ==
    \E quizpass \in passes, answer \in -1..MaxAnswer :
        \E i \in 1..Len(quizpass.quizitems) :
            /\ ev' = [kind |-> "set_answer", item |-> i, answer |-> answer,
                      before |-> quizpass.quizitems[i],
                      raised |-> set_answer_raises(quizpass.quizitems[i],
                                                   answer)]
            /\ passes' =
                    IF set_answer_raises(quizpass.quizitems[i], answer)
                    THEN passes
                    ELSE {[quizpass EXCEPT !.quizitems[i] =
                            set_answer(quizpass.quizitems[i], answer, now)]}
            /\ UNCHANGED <<now, calls, jobs, started, removed, running>>

\* quizpass.move_to_next()
CallMoveToNext ==
    \E quizpass \in passes :
        /\ passes' = {move_to_next(quizpass)}
        /\ ev' = [kind |-> "move_to_next"]
        /\ UNCHANGED <<now, calls, jobs, started, removed, running>>

\* quizpass.move_to_prev()
CallMoveToPrev ==
    \E quizpass \in passes :
        /\ passes' = {move_to_prev(quizpass)}
        /\ ev' = [kind |-> "move_to_prev"]
        /\ UNCHANGED <<now, calls, jobs, started, removed, running>>

\* time passes
ModelsTick ==
    /\ now < MaxTime
    /\ now' = now + 1
    /\ ev' = [kind |-> "tick"]
    /\ UNCHANGED <<passes, calls, jobs, started, removed, running>>

ModelsNext ==
    \/ CallSetAnswer
    \/ CallMoveToNext
    \/ CallMoveToPrev
    \/ ModelsTick

SpecModels == ModelsInit /\ [][ModelsNext]_vars

\* -------------------------------------------- set_answer, direct and pressed
\* set_answer called directly on the items of one stored pass, next to the
\* answer_<N> and '>' buttons pressed on that pass.
AnswerNext ==
    \/ CallSetAnswer
    \/ PressAnswer
    \/ PressNext
    \/ ModelsTick

SpecAnswer == ModelsInit /\ [][AnswerNext]_vars

\* ------------------------------------------------ create_quizpass, direct
\* create_quizpass called directly on an empty table with a list of questions
\* of the bank, next to the handlers that read, change or delete the pass.
QuestionLists ==
    {<<Questions[i]>> : i \in 1..Len(Questions)}
        \cup {<<Questions[i], Questions[j]>> : i, j \in 1..Len(Questions)}

\* create_quizpass(session, user_id, questions, correct_required)
CallCreateQuizpass ==
    \E user_id \in Users, questions \in QuestionLists :
        /\ passes = {}
        /\ passes' = passes \cup
                {create_quizpass(passes, user_id, questions,
                                 CORRECT_ANSWERS_REQUIRED, now)}
        /\ calls' = <<>>
        /\ ev' = Event("create_quizpass", user_id, questions, None, FALSE)
        /\ started' = started \cup {user_id}
        /\ removed' = removed \ {user_id}
        /\ UNCHANGED <<now, jobs, running>>

CreateNext ==
    \/ CallCreateQuizpass
    \/ PressNext
    \/ PressPrev
    \/ PressAnswer
    \/ PressShareResult
    \/ CommandKickme
    \/ Tick

SpecCreate == Init /\ [][CreateNext]_vars

\* ------------------------------------------- the pass properties, direct
\* The properties of QuizPass read on one stored pass of 1..MaxItems items,
\* each item unanswered or answered with one of its two options, with any
\* number of correct answers required.
PassQuestionLists ==
    UNION {{[i \in 1..n |->
                [text |-> i, options |-> <<10 * i + 1, 10 * i + 2>>,
                 answer |-> a[i]]] : a \in [1..n -> {0, 1}]} :
            n \in 1..MaxItems}

\* the pass after item.set_answer(given[i]) on every item with a given[i]
answer_items(qp, given, t) ==
    [qp EXCEPT !.quizitems =
        [i \in 1..Len(qp.quizitems) |->
            IF given[i] = None THEN qp.quizitems[i]
            ELSE set_answer(qp.quizitems[i], given[i], t)]]

PassInit ==
    /\ \E questions \in PassQuestionLists :
        \E correct_required \in 1..Len(questions),
           given \in [1..Len(questions) -> {None, 0, 1}] :
            passes = {answer_items(create_quizpass({}, 1, questions,
                                                   correct_required, 0),
                                   given, 0)}
    /\ now = 0
    /\ ev = [kind |-> "init"]
    /\ calls = <<>>
    /\ jobs = EmptyBag
    /\ started = {}
    /\ removed = {}
    /\ running = NoJob

\* quizpass.correct_given
ReadCorrectGiven ==
    \E quizpass \in passes :
        /\ ev' = [kind |-> "correct_given", result |-> correct_given(quizpass)]
        /\ UNCHANGED <<passes, now, calls, jobs, started, removed, running>>

\* quizpass.is_finished
ReadIsFinished ==
    \E quizpass \in passes :
        /\ ev' = [kind |-> "is_finished", result |-> is_finished(quizpass)]
        /\ UNCHANGED <<passes, now, calls, jobs, started, removed, running>>

\* quizpass.has_passed
ReadHasPassed ==
    \E quizpass \in passes :
        /\ ev' = [kind |-> "has_passed", result |-> has_passed(quizpass)]
        /\ UNCHANGED <<passes, now, calls, jobs, started, removed, running>>

PassNext ==
    \/ ReadCorrectGiven
    \/ ReadIsFinished
    \/ ReadHasPassed

SpecPass == PassInit /\ [][PassNext]_vars

\* --------------------------------------------------- last_answer_at, direct
\* last_answer_at and is_finished read on one stored pass of 1..MaxItems
\* items, each item unanswered or answered at some moment up to now, next to
\* set_answer called on its items.
answer_items_at(qp, given, times) ==
    [qp EXCEPT !.quizitems =
        [i \in 1..Len(qp.quizitems) |->
            IF given[i] = None THEN qp.quizitems[i]
            ELSE set_answer(qp.quizitems[i], given[i], times[i])]]

LastInit ==
    /\ \E n \in 1..MaxItems :
        \E given \in [1..n -> {None, 0, 1}], times \in [1..n -> 0..MaxTime] :
            /\ \A i \in 1..n : given[i] = None => times[i] = 0
            /\ passes = {answer_items_at(
                    create_quizpass({}, 1,
                        [i \in 1..n |->
                            Question(i, <<10 * i + 1, 10 * i + 2>>, 0)],
                        CORRECT_ANSWERS_REQUIRED, 0),
                    given, times)}
    /\ now = MaxTime
    /\ ev = [kind |-> "init"]
    /\ calls = <<>>
    /\ jobs = EmptyBag
    /\ started = {}
    /\ removed = {}
    /\ running = NoJob

\* quizpass.last_answer_at
ReadLastAnswerAt ==
    \E quizpass \in passes :
        /\ ev' = [kind |-> "last_answer_at",
                  result |-> last_answer_at(quizpass)]
        /\ UNCHANGED <<passes, now, calls, jobs, started, removed, running>>

LastNext ==
    \/ ReadLastAnswerAt
    \/ ReadIsFinished
    \/ CallSetAnswer

SpecLast == LastInit /\ [][LastNext]_vars

\* ----------------------------------------------------------------- claims
\* What the claims speak of, stated on the stored rows alone.
Answered(item) == item.given_answer # None
Finished(p) == \A i \in 1..Len(p.quizitems) : Answered(p.quizitems[i])
CountCorrect(p) ==
    Cardinality({i \in 1..Len(p.quizitems) :
        /\ Answered(p.quizitems[i])
        /\ p.quizitems[i].given_answer = p.quizitems[i].correct_answer})
Passed(p) == CountCorrect(p) >= p.correct_required
LastAnswer(p) ==
    CHOOSE t \in {p.quizitems[i].answered_at : i \in 1..Len(p.quizitems)} :
        \A i \in 1..Len(p.quizitems) : p.quizitems[i].answered_at <= t
PassesOf(ps, u) == {p \in ps : p.user_id = u}
\* the most recently created pass of the user, NoPass when there is none
ActivePass(ps, u) ==
    IF PassesOf(ps, u) = {} THEN NoPass
    ELSE CHOOSE p \in PassesOf(ps, u) :
            \A q \in PassesOf(ps, u) : q.created_at <= p.created_at
\* the row of ps with the id of p
SameRow(ps, p) == CHOOSE q \in ps : q.id = p.id
HasRow(ps, p) == \E q \in ps : q.id = p.id
IsPress(e, data) == e.kind = "callback_query" /\ e.data = data
IsAnswerPress(e) ==
    e.kind = "callback_query" /\ e.data \in {"answer_" \o ToString(n) : n \in 0..MaxAnswer}
IsStartCommand(e) == e.kind = "command_start" /\ e.data = "pm"
Sent(cs, kind) ==
    {i \in 1..Len(cs) : cs[i].op = "send_message" /\ cs[i].text.kind = kind}

\* C1: in every pass current_item_index stays within 0..N-1 and current_item
\* finds an item after every event; a next press moves the active pass's index
\* from N-1 to 0 (else up by one), a prev press from 0 to N-1 (else down by one).
C1_NavigationInRange ==
    [][/\ \A p \in passes' :
            /\ p.current_item_index \in 0..(Len(p.quizitems) - 1)
            /\ \E i \in 1..Len(p.quizitems) :
                    p.quizitems[i].index = p.current_item_index
       /\ \A u \in Users :
            LET p == ActivePass(passes, u)
                n == Len(p.quizitems)
            IN (ev'.user = u /\ p # NoPass) =>
                /\ IsPress(ev', "next") =>
                        SameRow(passes', p).current_item_index =
                            IF p.current_item_index = n - 1 THEN 0
                            ELSE p.current_item_index + 1
                /\ IsPress(ev', "prev") =>
                        SameRow(passes', p).current_item_index =
                            IF p.current_item_index = 0 THEN n - 1
                            ELSE p.current_item_index - 1
      ]_vars

\* C1 witness: a next press has just wrapped the index of a pass to 0.
C1_Witness ==
    /\ IsPress(ev, "next")
    /\ ~ev.raised
    /\ ActivePass(passes, ev.user) # NoPass
    /\ ActivePass(passes, ev.user).current_item_index = 0
    /\ Len(calls) = 2

\* C2 as stated: set_answer on an item that is already answered leaves its
\* given_answer and answered_at as the first call set them.
C2_SetAnswerIdempotent ==
    [][(ev'.kind = "set_answer" /\ ~ev'.raised /\ Answered(ev'.before)) =>
        \A p \in passes' :
            /\ p.quizitems[ev'.item].given_answer = ev'.before.given_answer
            /\ p.quizitems[ev'.item].answered_at = ev'.before.answered_at
      ]_vars

\* C2 amended: set_answer itself is not idempotent; every in-range call,
\* on an answered item too, stores its own answer and the time of that call,
\* and changes nothing else of the item.
C2_SetAnswerOverwrites ==
    [][(ev'.kind = "set_answer" /\ ~ev'.raised) =>
        \A p \in passes' :
            p.quizitems[ev'.item] =
                [ev'.before EXCEPT !.given_answer = ev'.answer,
                                   !.answered_at = now]
      ]_vars

\* C2 witness: a second set_answer with another value and at a later time has
\* just been made on an answered item.
C2_Witness ==
    /\ ev.kind = "set_answer"
    /\ ~ev.raised
    /\ Answered(ev.before)
    /\ ev.before.given_answer # ev.answer
    /\ ev.before.answered_at < now

\* C3: through the bot's events an answer never changes: an item that has a
\* given_answer keeps it, its answered_at and its Correct/Wrong annotation in
\* the next state whenever its pass still exists, and an answer press on an
\* answered current item displays it with the annotation it had.
C3_AnswersImmutable ==
    [][/\ \A p \in passes : HasRow(passes', p) =>
            \A i \in 1..Len(p.quizitems) : Answered(p.quizitems[i]) =>
                LET old == p.quizitems[i]
                    new == SameRow(passes', p).quizitems[i]
                IN /\ new.given_answer = old.given_answer
                   /\ new.answered_at = old.answered_at
                   /\ new.correct_answer = old.correct_answer
       /\ \A u \in Users :
            LET p == ActivePass(passes, u)
            IN (/\ ev'.user = u /\ IsAnswerPress(ev') /\ p # NoPass
                /\ Answered(p.quizitems[p.current_item_index + 1])) =>
                \E c \in Made(calls', "edit_message_text") :
                    LET old == p.quizitems[p.current_item_index + 1]
                    IN /\ calls'[c].text.item = old.text
                       /\ calls'[c].text.note =
                            IF old.given_answer = old.correct_answer
                            THEN "Correct." ELSE "Wrong."
      ]_vars

\* C3 witness: answer_1 has just been pressed on a current item whose stored
\* answer is 0.
C3_Witness ==
    /\ IsPress(ev, "answer_1")
    /\ ActivePass(passes, ev.user) # NoPass
    /\ LET p == ActivePass(passes, ev.user)
       IN p.quizitems[p.current_item_index + 1].given_answer = 0

\* C4: a user whose active pass is finished and passed gets no new pass from
\* /start or start_quiz at any time: the tables are unchanged, the only message
\* is the passed result (score, share_result button), and there is neither a
\* getting-started prompt nor a displayed question.
C4_PassedNeverRestarts ==
    [][\A u \in Users :
        LET p == ActivePass(passes, u)
        IN (/\ ev'.user = u
            /\ IsStartCommand(ev') \/ IsPress(ev', "start_quiz")
            /\ p # NoPass /\ Finished(p) /\ Passed(p)) =>
            /\ passes' = passes
            /\ Cardinality(Made(calls', "send_message")) = 1
            /\ \E c \in Sent(calls', "PASSED") :
                    /\ calls'[c].chat_id = u
                    /\ calls'[c].text.result = CountCorrect(p)
                    /\ calls'[c].text.total = Len(p.quizitems)
                    /\ \E b \in 1..Len(calls'[c].reply_markup[1]) :
                            calls'[c].reply_markup[1][b].callback_data
                                = "share_result"
            /\ Made(calls', "edit_message_text") = {}
      ]_vars

\* C4 witness: /start has just been answered with the passed result although
\* the cooldown has run out since the last answer of the passed pass.
C4_Witness ==
    /\ IsStartCommand(ev)
    /\ Sent(calls, "PASSED") # {}
    /\ ActivePass(passes, ev.user) # NoPass
    /\ Passed(ActivePass(passes, ev.user))
    /\ now - LastAnswer(ActivePass(passes, ev.user))
            >= WAIT_HOURS_ON_FAIL * UnitsPerHour

\* what a start attempt that is let through does
StartAllowed(u) ==
    /\ IsStartCommand(ev') =>
            /\ passes' = passes
            /\ Sent(calls', "GETTING_STARTED") # {}
            /\ Sent(calls', "FAILED") = {}
    /\ IsPress(ev', "start_quiz") =>
            /\ Cardinality(passes') = Cardinality(passes) + 1
            /\ Sent(calls', "FAILED") = {}

\* what a start attempt that is blocked by the cooldown does
StartBlocked(u) ==
    /\ passes' = passes
    /\ Sent(calls', "FAILED") # {}
    /\ Sent(calls', "GETTING_STARTED") = {}
    /\ Made(calls', "edit_message_text") = {}

\* C5: with a finished and failed active pass, /start or start_quiz is blocked
\* exactly when now minus the latest answered_at of the pass is below the
\* cooldown; from the cooldown on it is let through.  Blocked, no pass is
\* created.
C5_CooldownFromLastAnswer ==
    [][\A u \in Users :
        LET p == ActivePass(passes, u)
        IN (/\ ev'.user = u
            /\ IsStartCommand(ev') \/ IsPress(ev', "start_quiz")
            /\ p # NoPass /\ Finished(p) /\ ~Passed(p)) =>
            IF now - LastAnswer(p) < WAIT_HOURS_ON_FAIL * UnitsPerHour
            THEN StartBlocked(u)
            ELSE StartAllowed(u)
      ]_vars

\* C5 witness: a start has just been blocked at a moment when the cooldown
\* counted from created_at was already over.
C5_Witness ==
    /\ IsStartCommand(ev)
    /\ Sent(calls, "FAILED") # {}
    /\ ActivePass(passes, ev.user) # NoPass
    /\ now - ActivePass(passes, ev.user).created_at
            >= WAIT_HOURS_ON_FAIL * UnitsPerHour

\* C6: the wait reported by a blocked start is the remaining cooldown rounded
\* up to whole hours: it is the one w with (w-1)h < remaining <= w h, and lies
\* in 1..WAIT_HOURS_ON_FAIL.
C6_WaitRoundedUp ==
    [][\A u \in Users :
        LET p == ActivePass(passes, u)
            remaining == WAIT_HOURS_ON_FAIL * UnitsPerHour
                            - (now - LastAnswer(p))
        IN (/\ ev'.user = u
            /\ IsStartCommand(ev') \/ IsPress(ev', "start_quiz")
            /\ Sent(calls', "FAILED") # {}) =>
            \A c \in Sent(calls', "FAILED") :
                LET w == calls'[c].text.wait_hours
                IN /\ w \in 1..WAIT_HOURS_ON_FAIL
                   /\ (w - 1) * UnitsPerHour < remaining
                   /\ remaining <= w * UnitsPerHour
      ]_vars

\* C6 witness: a start has just been blocked with a remaining time that is not
\* a whole number of hours.
C6_Witness ==
    /\ IsPress(ev, "start_quiz")
    /\ Sent(calls, "FAILED") # {}
    /\ ActivePass(passes, ev.user) # NoPass
    /\ (WAIT_HOURS_ON_FAIL * UnitsPerHour
            - (now - LastAnswer(ActivePass(passes, ev.user))))
                % UnitsPerHour # 0

\* C7: once the cooldown of a failed active pass is over, /start sends the
\* getting-started prompt and start_quiz adds one pass of that user with
\* current_item_index 0 and no answers, displays its first item and makes it
\* the pass get_active_quizpass returns; every row stored before stays as it
\* was.
C7_RestartSupersedes ==
    [][\A u \in Users :
        LET p == ActivePass(passes, u)
        IN (/\ ev'.user = u
            /\ p # NoPass /\ Finished(p) /\ ~Passed(p)
            /\ now - LastAnswer(p) >= WAIT_HOURS_ON_FAIL * UnitsPerHour) =>
            /\ IsStartCommand(ev') =>
                    /\ Sent(calls', "GETTING_STARTED") # {}
                    /\ passes' = passes
            /\ IsPress(ev', "start_quiz") =>
                    /\ passes \subseteq passes'
                    /\ \E new \in passes' \ passes :
                        /\ passes' = passes \cup {new}
                        /\ new.user_id = u
                        /\ new.current_item_index = 0
                        /\ Len(new.quizitems) = QUESTIONS_PER_QUIZ
                        /\ \A i \in 1..Len(new.quizitems) :
                                /\ new.quizitems[i].given_answer = None
                                /\ new.quizitems[i].answered_at = None
                        /\ get_active_quizpass(passes', u) = new
                        /\ get_active_quizpass(passes', u) # p
                        /\ \E c \in Made(calls', "edit_message_text") :
                                /\ calls'[c].text.item = new.quizitems[1].text
                                /\ calls'[c].text.note = ""
      ]_vars

\* C7 witness: start_quiz has just created a second pass next to a finished
\* and failed one, which is still stored with its answers.
C7_Witness ==
    /\ IsPress(ev, "start_quiz")
    /\ Cardinality(PassesOf(passes, ev.user)) = 2
    /\ \E old \in passes : Finished(old) /\ ~Passed(old)
    /\ ~Answered(ActivePass(passes, ev.user).quizitems[1])
    /\ ~Answered(ActivePass(passes, ev.user).quizitems[2])
    /\ Made(calls, "edit_message_text") # {}

\* C8 as stated: with an unfinished active pass, /start and start_quiz create
\* no pass, send no getting-started prompt and display no quiz.
C8_AlreadyStartedBlocked ==
    [][\A u \in Users :
        LET p == ActivePass(passes, u)
        IN (/\ ev'.user = u
            /\ IsStartCommand(ev') \/ IsPress(ev', "start_quiz")
            /\ p # NoPass /\ ~Finished(p)) =>
            /\ passes' = passes
            /\ Sent(calls', "GETTING_STARTED") = {}
            /\ Made(calls', "edit_message_text") = {}
      ]_vars

C10_ResultOnFinish ==
    [][\A u \in Users :
        LET p == ActivePass(passes, u)
        IN (ev'.user = u /\ IsAnswerPress(ev') /\ p # NoPass /\ ~Finished(p)) =>
            LET q == SameRow(passes', p)
            IN IF Finished(q)
               THEN IF CountCorrect(q) >= q.correct_required
                    THEN /\ Cardinality(Made(calls', "send_message")) = 1
                         /\ \E c \in Sent(calls', "PASSED") :
                                /\ calls'[c].chat_id = u
                                /\ calls'[c].text.result = CountCorrect(q)
                         /\ Cardinality(Made(calls', "restrict_chat_member")) = 1
                         /\ \E c \in Made(calls', "restrict_chat_member") :
                                /\ calls'[c].chat_id = GROUP_ID
                                /\ calls'[c].user_id = u
                                /\ calls'[c].text.can_send_message
                    ELSE /\ Cardinality(Made(calls', "send_message")) = 1
                         /\ \E c \in Sent(calls', "FAILED") :
                                /\ calls'[c].chat_id = u
                                /\ calls'[c].text.result = CountCorrect(q)
                                /\ calls'[c].text.required = q.correct_required
                                /\ calls'[c].text.wait_hours = WAIT_HOURS_ON_FAIL
                         /\ Made(calls', "restrict_chat_member") = {}
               ELSE /\ Made(calls', "send_message") = {}
                    /\ Made(calls', "restrict_chat_member") = {}
      ]_vars

\* C10 witness: the last answer has just finished a pass with exactly the
\* required number of correct answers, and the restriction was lifted.
C10_Witness ==
    /\ IsAnswerPress(ev)
    /\ ActivePass(passes, ev.user) # NoPass
    /\ Finished(ActivePass(passes, ev.user))
    /\ CountCorrect(ActivePass(passes, ev.user))
            = ActivePass(passes, ev.user).correct_required
    /\ Sent(calls, "PASSED") # {}
    /\ Made(calls, "restrict_chat_member") # {}

\* ------------------------------------------------- claims: the group side
IsJoin(e) == e.kind = "new_chat_members"
IsJobRun(e) == e.kind = "job_kick_if_inactive"
IsKick(e) == e.kind = "command_kick"
IsKickme(e) == e.kind = "command_kickme"
IsBan(e) == e.kind = "command_ban"
\* the inactivity jobs of the queue that are for the user
JobsFor(js, u) == {j \in BagToSet(js) : j.context = u}
\* a join mutes the user: all permissions off, in the group
Mutes(c, u) ==
    /\ c.op = "restrict_chat_member"
    /\ c.chat_id = GROUP_ID
    /\ c.user_id = u
    /\ ~c.text.can_send_message

\* C11: on a join, a member with no active pass or with an active pass that
\* is not both finished and passed (unfinished with enough correct answers,
\* failed) is muted once and gets one inactivity job due after the configured
\* delay; a member whose active pass is finished and passed gets no
\* restriction call and no job.  No pass changes.
C11_JoinRestricts ==
    [][IsJoin(ev') =>
        /\ passes' = passes
        /\ \A i \in 1..Len(ev'.data) :
            LET u == ev'.data[i]
                p == ActivePass(passes, u)
                job == Job(u, now + KICK_INACTIVE_AFTER)
            IN IF p # NoPass /\ Finished(p) /\ Passed(p)
               THEN /\ MadeFor(calls', "restrict_chat_member", u) = {}
                    /\ \A j \in JobsFor(jobs', u) :
                            CopiesIn(j, jobs') = CopiesIn(j, jobs)
               ELSE /\ Cardinality(MadeFor(calls', "restrict_chat_member", u)) = 1
                    /\ \A c \in MadeFor(calls', "restrict_chat_member", u) :
                            Mutes(calls'[c], u)
                    /\ CopiesIn(job, jobs') = CopiesIn(job, jobs) + 1
                    /\ \A j \in JobsFor(jobs', u) \ {job} :
                            CopiesIn(j, jobs') = CopiesIn(j, jobs)
      ]_vars

\* C11 witness: a member has just joined with an unfinished pass whose correct
\* answers already reach the required count, and was muted.
C11_Witness ==
    /\ IsJoin(ev)
    /\ \E i \in 1..Len(ev.data) :
        LET p == ActivePass(passes, ev.data[i])
        IN /\ p # NoPass
           /\ ~Finished(p)
           /\ CountCorrect(p) >= p.correct_required
           /\ MadeFor(calls, "restrict_chat_member", ev.data[i]) # {}
           /\ JobsFor(jobs, ev.data[i]) # {}

\* C12: when the inactivity job of a user runs and the user has no pass at
\* all, the bot's calls are exactly kick then unban of that user in the group;
\* when any pass of the user exists, finished or not, it makes no call.  Either
\* way no pass changes and only that one job leaves the queue.
C12_JobKicksWithoutPass ==
    [][IsJobRun(ev') =>
        LET u == ev'.user
        IN /\ passes' = passes
           /\ BagCardinality(jobs') = BagCardinality(jobs) - 1
           /\ IF PassesOf(passes, u) = {}
              THEN /\ Len(calls') = 2
                   /\ calls'[1].op = "kick_chat_member"
                   /\ calls'[2].op = "unban_chat_member"
                   /\ \A c \in 1..2 : /\ calls'[c].user_id = u
                                      /\ calls'[c].chat_id = GROUP_ID
              ELSE calls' = <<>>
      ]_vars

\* C12 witness: a job has just run for a user without a pass and kicked them.
C12_Witness ==
    /\ IsJobRun(ev)
    /\ PassesOf(passes, ev.user) = {}
    /\ Made(calls, "kick_chat_member") # {}
    /\ Made(calls, "unban_chat_member") # {}

C14_ShareOnce ==
    [][/\ \A u \in Users :
            LET p == ActivePass(passes, u)
            IN (ev'.user = u /\ IsPress(ev', "share_result")) =>
                IF p # NoPass /\ Finished(p) /\ Passed(p) /\ ~p.result_shared
                THEN /\ passes' = (passes \ {p})
                                    \cup {[p EXCEPT !.result_shared = TRUE]}
                     /\ Cardinality(Made(calls', "send_message")) = 1
                     /\ \E c \in Sent(calls', "RESULT_SHARE") :
                            /\ calls'[c].chat_id = GROUP_ID
                            /\ calls'[c].text.user = u
                            /\ calls'[c].text.result = CountCorrect(p)
                            /\ calls'[c].text.total = Len(p.quizitems)
                ELSE /\ passes' = passes
                     /\ Made(calls', "send_message") = {}
       /\ Sent(calls', "RESULT_SHARE") # {} => IsPress(ev', "share_result")
       /\ \A p \in passes : (p.result_shared /\ HasRow(passes', p)) =>
                SameRow(passes', p).result_shared
      ]_vars

\* C14 witness: share_result has just been pressed on a pass that was shared
\* before, and nothing was posted.
C14_Witness ==
    /\ IsPress(ev, "share_result")
    /\ ActivePass(passes, ev.user) # NoPass
    /\ ActivePass(passes, ev.user).result_shared
    /\ Made(calls, "send_message") = {}

\* ------------------------------------------- claims: moderator commands
\* the ways of writing a number below 100 in at most two digits
Spellings(n) ==
    IF n < 10 THEN {<<ToString(n)>>, <<"0", ToString(n)>>}
    ELSE {<<ToString(n \div 10), ToString(n % 10)>>}
\* the argument of a command text: what follows its first space
ArgOf(text) ==
    IF \A i \in 1..Len(text) : text[i] # " " THEN <<>>
    ELSE LET at == CHOOSE i \in 1..Len(text) :
                    text[i] = " " /\ \A j \in 1..(i - 1) : text[j] # " "
         IN SubSeq(text, at + 1, Len(text))
\* the places of the message's entities that carry a user
Mentions(m) == {i \in 1..Len(m.entities) : m.entities[i].user.id # None}
IsReply(m) == m.reply_to_message.id # None
HasNumber(m) == \E n \in 0..99 : ArgOf(m.text) \in Spellings(n)
\* the user a moderator command is aimed at: first mention, else the author
\* of the replied-to message, else the number of the argument
TargetOf(m) ==
    IF Mentions(m) # {}
    THEN LET i == CHOOSE i \in Mentions(m) : \A j \in Mentions(m) : i <= j
         IN [id |-> m.entities[i].user.id,
             name |-> m.entities[i].user.first_name]
    ELSE IF IsReply(m)
    THEN [id |-> m.reply_to_message.id,
          name |-> m.reply_to_message.first_name]
    ELSE IF HasNumber(m)
    THEN [id |-> CHOOSE n \in 0..99 : ArgOf(m.text) \in Spellings(n),
          name |-> ArgOf(m.text)]
    ELSE NoTarget
\* the sender's role in the group is owner or admin
ByModerator(e) == e.data.status \in {"creator", "admin"}

\* C15: /kick or /ban from a sender who is neither owner nor admin looks up
\* the sender's role and answers with the denial message, as a reply in the
\* group, and does nothing else: no kick, no unban, no pass deleted or changed,
\* however the target is given.
C15_UnauthorizedDenied ==
    [][((IsKick(ev') \/ IsBan(ev')) /\ ~ByModerator(ev')) =>
        /\ passes' = passes
        /\ Made(calls', "kick_chat_member") = {}
        /\ Made(calls', "unban_chat_member") = {}
        /\ Len(calls') = 2
        /\ calls'[1].op = "get_chat_member"
        /\ calls'[1].user_id = ev'.user
        /\ calls'[2].op = "send_message"
        /\ calls'[2].text = [kind |-> "UNAUTHORIZED"]
        /\ calls'[2].chat_id = GROUP_ID
        /\ calls'[2].message_id = ev'.message_id
      ]_vars

\* C15 witness: a plain member has just sent /ban with a mention of a user
\* who holds a pass, and was denied.
C15_Witness ==
    /\ IsBan(ev)
    /\ ev.data.status = "member"
    /\ Mentions(ev.data.message) # {}
    /\ PassesOf(passes, TargetOf(ev.data.message).id) # {}
    /\ Sent(calls, "UNAUTHORIZED") # {}

C19_NoTargetRejected ==
    [][((IsKick(ev') \/ IsBan(ev')) /\ ByModerator(ev')
            /\ TargetOf(ev'.data.message) = NoTarget) =>
        /\ passes' = passes
        /\ Made(calls', "kick_chat_member") = {}
        /\ Made(calls', "unban_chat_member") = {}
        /\ Cardinality(Made(calls', "send_message")) = 1
        /\ \A c \in Made(calls', "send_message") :
            /\ calls'[c].text = [kind |-> "NO_TARGET"]
            /\ calls'[c].chat_id = GROUP_ID
            /\ calls'[c].message_id = ev'.message_id
      ]_vars

\* C19 witness: the owner has just sent /kick without a target while a pass is
\* stored, and got the no-target message.
C19_Witness ==
    /\ IsKick(ev)
    /\ ev.data.status = "creator"
    /\ Mentions(ev.data.message) = {}
    /\ ~IsReply(ev.data.message)
    /\ ~HasNumber(ev.data.message)
    /\ Sent(calls, "NO_TARGET") # {}
    /\ passes # {}

C18_TargetOrder ==
    ev.kind = "get_target" =>
        LET m == ev.message
        IN /\ Mentions(m) # {} =>
                \E i \in Mentions(m) :
                    /\ \A j \in Mentions(m) : i <= j
                    /\ ev.target.id = m.entities[i].user.id
                    /\ ev.target.name = m.entities[i].user.first_name
           /\ (Mentions(m) = {} /\ IsReply(m)) =>
                /\ ev.target.id = m.reply_to_message.id
                /\ ev.target.name = m.reply_to_message.first_name
           /\ (Mentions(m) = {} /\ ~IsReply(m) /\ HasNumber(m)) =>
                /\ ArgOf(m.text) \in Spellings(ev.target.id)
                /\ ev.target.name = ArgOf(m.text)
           /\ ev.target = NoTarget <=>
                (Mentions(m) = {} /\ ~IsReply(m) /\ ~HasNumber(m))

\* C18 witness: 'kick 1' with a mention of user 2 and a reply to user 1 has
\* been resolved to user 2.
C18_Witness ==
    /\ ev.kind = "get_target"
    /\ ArgOf(ev.message.text) = <<"1">>
    /\ Mentions(ev.message) # {}
    /\ ev.message.reply_to_message.id = 1
    /\ ev.target.id = 2

\* C20: in every state every stored item is either unanswered, with neither
\* given_answer nor answered_at, or answered, with both; a stored given_answer
\* is one of the item's option indexes 0..len(options)-1.
C20_AnsweredTogether ==
    \A p \in passes : \A i \in 1..Len(p.quizitems) :
        LET item == p.quizitems[i]
        IN /\ item.given_answer = None <=> item.answered_at = None
           /\ item.given_answer # None =>
                item.given_answer \in 0..(Len(item.options) - 1)

\* C20 witness: an answer press with a number that is no option of the current
\* item has just failed next to an answered item, and the current item is
\* still unanswered.
C20_Witness ==
    /\ IsAnswerPress(ev)
    /\ ev.raised
    /\ \E p \in passes :
        /\ p.quizitems[p.current_item_index + 1].given_answer = None
        /\ p.quizitems[p.current_item_index + 1].answered_at = None
        /\ \E i \in 1..Len(p.quizitems) :
            /\ p.quizitems[i].given_answer # None
            /\ p.quizitems[i].answered_at # None

\* the N of an answer_<N> press
PressedAnswer(e) ==
    CHOOSE n \in 0..MaxAnswer : e.data = "answer_" \o ToString(n)
OutOfRange(item, answer) == answer < 0 \/ answer > Len(item.options) - 1

\* C21: set_answer with an answer outside 0..len(options)-1 raises and stores
\* nothing: the item and the rest of the pass are as before, no value is
\* clamped into range; an answer_<N> press with an out-of-range N on an
\* unanswered current item fails and leaves that item unanswered.
C21_OutOfRangeRejected ==
    [][/\ (ev'.kind = "set_answer" /\ OutOfRange(ev'.before, ev'.answer)) =>
            /\ ev'.raised
            /\ passes' = passes
       /\ \A u \in Users :
            LET p == ActivePass(passes, u)
                item == p.quizitems[p.current_item_index + 1]
            IN (/\ IsAnswerPress(ev') /\ ev'.user = u /\ p # NoPass
                /\ ~Answered(item)
                /\ OutOfRange(item, PressedAnswer(ev'))) =>
                /\ ev'.raised
                /\ passes' = passes
                /\ ~Answered(SameRow(passes', p).quizitems[p.current_item_index + 1])
      ]_vars

\* C21 witness: answer_2 has just been pressed on an unanswered current item
\* with two options, after an answer was stored on the other item.
C21_Witness ==
    /\ IsPress(ev, "answer_2")
    /\ ev.raised
    /\ \E p \in passes :
        /\ Len(p.quizitems[p.current_item_index + 1].options) = 2
        /\ ~Answered(p.quizitems[p.current_item_index + 1])
        /\ \E i \in 1..Len(p.quizitems) : Answered(p.quizitems[i])

\* the items of p that are answered with, and without, the correct answer
CorrectItems(p) ==
    {i \in 1..Len(p.quizitems) :
        /\ Answered(p.quizitems[i])
        /\ p.quizitems[i].given_answer = p.quizitems[i].correct_answer}
WrongItems(p) ==
    {i \in 1..Len(p.quizitems) :
        /\ Answered(p.quizitems[i])
        /\ p.quizitems[i].given_answer # p.quizitems[i].correct_answer}

\* C22: correct_given of a pass is the number of its items that are answered
\* and whose given_answer equals correct_answer; unanswered items do not count.
C22_CorrectGivenCounts ==
    ev.kind = "correct_given" =>
        \A p \in passes : ev.result = Cardinality(CorrectItems(p))

\* C22 witness: correct_given has just been read as 1 on a pass that has a
\* correctly answered, a wrongly answered and an unanswered item.
C22_Witness ==
    /\ ev.kind = "correct_given"
    /\ ev.result = 1
    /\ \E p \in passes :
        /\ Cardinality(CorrectItems(p)) = 1
        /\ WrongItems(p) # {}
        /\ \E i \in 1..Len(p.quizitems) : ~Answered(p.quizitems[i])

\* C23: is_finished is true exactly when every item is answered; has_passed
\* is true exactly when correct_given >= correct_required, the required count
\* itself passing; of 3 items with 2 required, two correct answers and a wrong
\* one pass, one correct answer fails.
C23_FinishedAndPassed ==
    \A p \in passes :
        /\ ev.kind = "is_finished" => (ev.result <=> Finished(p))
        /\ ev.kind = "has_passed" =>
            /\ ev.result <=> Cardinality(CorrectItems(p)) >= p.correct_required
            /\ (/\ Len(p.quizitems) = 3 /\ p.correct_required = 2
                /\ Finished(p)) =>
                /\ Cardinality(CorrectItems(p)) = 2 => ev.result
                /\ Cardinality(CorrectItems(p)) = 1 => ~ev.result

\* C23 witness: has_passed has just been read as true on a finished pass of
\* 3 items, 2 required, with two correct answers and a wrong one.
C23_Witness ==
    /\ ev.kind = "has_passed"
    /\ ev.result
    /\ \E p \in passes :
        /\ Len(p.quizitems) = 3
        /\ p.correct_required = 2
        /\ Finished(p)
        /\ Cardinality(CorrectItems(p)) = 2
        /\ Cardinality(WrongItems(p)) = 1

\* the pass is what reading back a pass just created from the questions gives
ReadsBack(p, questions) ==
    /\ p.current_item_index = 0
    /\ ~p.result_shared
    /\ Len(p.quizitems) = Len(questions)
    /\ \A i \in 1..Len(questions) :
        /\ p.quizitems[i].index = i - 1
        /\ p.quizitems[i].text = questions[i].text
        /\ p.quizitems[i].options = questions[i].options
        /\ p.quizitems[i].correct_answer = questions[i].answer
        /\ p.quizitems[i].given_answer = None
        /\ p.quizitems[i].answered_at = None

\* the questions, options and correct answers of the items, in order
Frame(p) ==
    [i \in 1..Len(p.quizitems) |->
        <<p.quizitems[i].index, p.quizitems[i].text, p.quizitems[i].options,
          p.quizitems[i].correct_answer>>]

\* C24: a pass created from questions Q1..Qn has current_item_index 0,
\* result_shared false and exactly n unanswered items, item i carrying the
\* text, the options in order and the correct answer of Q(i+1); no later
\* event adds, removes or reorders the items or options of a pass that stays
\* in storage.
C24_CreateReadsBack ==
    [][/\ ev'.kind = "create_quizpass" =>
            /\ passes \subseteq passes'
            /\ Cardinality(passes' \ passes) = 1
            /\ \A p \in passes' \ passes :
                /\ p.user_id = ev'.user
                /\ ReadsBack(p, ev'.data)
       /\ \A p \in passes : HasRow(passes', p) =>
            Frame(SameRow(passes', p)) = Frame(p)
      ]_vars

\* C24 witness: an item of a pass created from the second question followed
\* by the first has been answered, and the pass still reads back in that order.
C24_Witness ==
    /\ IsAnswerPress(ev)
    /\ \E p \in passes :
        /\ Frame(p) = Frame(create_quizpass({}, p.user_id,
                                <<Questions[2], Questions[1]>>,
                                p.correct_required, 0))
        /\ \E i \in 1..Len(p.quizitems) : Answered(p.quizitems[i])

\* the question of the bank an item was made from
QuestionOf(item) == CHOOSE i \in 1..Len(Questions) : Questions[i].text = item.text

\* C25: pass creation is atomic: in every state, the one left by a creation
\* that failed part-way included, a stored pass has all of its items and
\* every item has all of its options.
C25_CreationAtomic ==
    \A p \in passes :
        /\ Len(p.quizitems) = QUESTIONS_PER_QUIZ
        /\ \A i \in 1..Len(p.quizitems) :
            p.quizitems[i].options = Questions[QuestionOf(p.quizitems[i])].options

\* C26: the persistence changes of one event are all-or-nothing: when a step
\* of its handler fails, a call on the platform included, the stored passes
\* and items after the event are those before it.
C26_FailedEventRollsBack ==
    [][ev'.raised => passes' = passes]_vars

\* the event is one in which the platform refused a restrict_chat_member call
RestrictRefused(e) == "refused" \in DOMAIN e

\* C27: a restrict_chat_member call that fails does not fail the event: on a
\* join every member who is not allowed to chat still gets an inactivity job
\* and the handler completes; on passing the quiz the handler completes.
C27_RestrictBestEffort ==
    [][RestrictRefused(ev') =>
        /\ ~ev'.raised
        /\ IsJoin(ev') =>
            \A i \in 1..Len(ev'.data) :
                LET p == ActivePass(passes, ev'.data[i])
                IN (p = NoPass \/ ~(Finished(p) /\ Passed(p))) =>
                    CopiesIn(Job(ev'.data[i], now + KICK_INACTIVE_AFTER), jobs')
                        > CopiesIn(Job(ev'.data[i], now + KICK_INACTIVE_AFTER),
                                   jobs)
      ]_vars

\* C28: events are handled one at a time, the inactivity job included: no
\* other event is handled between the job's look for the user's pass and its
\* kick, so no user is kicked for inactivity while a pass of theirs is stored.
C28_NoKickWithPass ==
    [][\A u \in Users :
        (IsJobRun(ev') /\ MadeFor(calls', "kick_chat_member", u) # {}) =>
            PassesOf(passes, u) = {}
      ]_vars

\* the item was made from a question of the bank
FromBank(item) ==
    \E i \in 1..Len(Questions) :
        /\ item.text = Questions[i].text
        /\ item.options = Questions[i].options
        /\ item.correct_answer = Questions[i].answer

\* C29: for a user without any pass, /start sends the getting-started prompt
\* and start_quiz creates exactly one pass, of that user, made of
\* QUESTIONS_PER_QUIZ pairwise distinct questions of the bank, with
\* current_item_index 0, and displays its first item; the passes of other
\* users are neither created nor changed.
C29_FirstStart ==
    [][\A u \in Users :
        (ev'.user = u /\ PassesOf(passes, u) = {}) =>
            /\ IsStartCommand(ev') =>
                /\ passes' = passes
                /\ Sent(calls', "GETTING_STARTED") # {}
                /\ Cardinality(Made(calls', "send_message")) = 1
            /\ IsPress(ev', "start_quiz") =>
                \E p \in passes' \ passes :
                    /\ passes' = passes \cup {p}
                    /\ p.user_id = u
                    /\ p.current_item_index = 0
                    /\ Len(p.quizitems) = QUESTIONS_PER_QUIZ
                    /\ \A i \in 1..Len(p.quizitems) : FromBank(p.quizitems[i])
                    /\ \A i, j \in 1..Len(p.quizitems) :
                        i # j => p.quizitems[i].text # p.quizitems[j].text
                    /\ \E c \in Made(calls', "edit_message_text") :
                        /\ calls'[c].chat_id = u
                        /\ calls'[c].text.item = p.quizitems[1].text
      ]_vars

\* C29 witness: start_quiz has just created the only pass of a user, later
\* than the pass of another user that is still in storage.
C29_Witness ==
    /\ IsPress(ev, "start_quiz")
    /\ ~ev.raised
    /\ Cardinality(PassesOf(passes, ev.user)) = 1
    /\ \A p \in PassesOf(passes, ev.user) : p.created_at = now /\ now > 0
    /\ passes # PassesOf(passes, ev.user)

\* the questions of the file whose answer is not one of their options
Offending(ds) ==
    {n \in 1..Len(ds) : ~(0 <= ds[n].answer /\ ds[n].answer < Len(ds[n].options))}

\* C30: loading returns the questions in source order exactly when every
\* question has 0 <= answer < len(options); otherwise the load fails with an
\* error that names the position, counted from 1, of the first offending
\* question, and returns no list.
C30_LoadAllOrError ==
    ev.kind = "load_questions" =>
        LET ds == ev.question_dicts
        IN IF Offending(ds) = {}
           THEN /\ ~ev.result.raised
                /\ Len(ev.result.questions) = Len(ds)
                /\ \A n \in 1..Len(ds) :
                    /\ ev.result.questions[n].text = ds[n].question
                    /\ ev.result.questions[n].options = ds[n].options
                    /\ ev.result.questions[n].answer = ds[n].answer
           ELSE /\ ev.result.raised
                /\ "questions" \notin DOMAIN ev.result
                /\ ev.result.error.number \in Offending(ds)
                /\ \A n \in Offending(ds) : ev.result.error.number <= n

\* C30 witness: a load has just failed naming question 2 of a file whose
\* first question is valid and whose second and third are not.
C30_Witness ==
    /\ ev.kind = "load_questions"
    /\ ev.result.raised
    /\ ev.result.error.number = 2
    /\ Offending(ev.question_dicts) = {2, 3}

\* the moments at which the items of p were answered
AnswerTimes(p) ==
    {p.quizitems[i].answered_at :
        i \in {j \in 1..Len(p.quizitems) : Answered(p.quizitems[j])}}

\* C31: last_answer_at is the latest answered_at of the answered items and is
\* None when no item is answered; a pass with items none of which is answered
\* is not finished; a pass of one item is finished right after its one answer.
C31_LastAnswerAt ==
    [][\A p \in passes' :
        /\ ev'.kind = "last_answer_at" =>
            IF AnswerTimes(p) = {} THEN ev'.result = None
            ELSE /\ ev'.result \in AnswerTimes(p)
                 /\ \A t \in AnswerTimes(p) : t <= ev'.result
        /\ (ev'.kind = "is_finished" /\ Len(p.quizitems) >= 1
                /\ AnswerTimes(p) = {}) => ~ev'.result
        /\ (ev'.kind = "is_finished" /\ Len(p.quizitems) = 1
                /\ AnswerTimes(p) # {}) => ev'.result
        /\ (ev'.kind = "set_answer" /\ ~ev'.raised /\ Len(p.quizitems) = 1) =>
                Finished(p)
      ]_vars

\* C31 witness: last_answer_at has just been read on a pass whose first item
\* was answered later than its last item and which has an unanswered item.
C31_Witness ==
    /\ ev.kind = "last_answer_at"
    /\ \E p \in passes :
        /\ Len(p.quizitems) = 3
        /\ Answered(p.quizitems[1]) /\ Answered(p.quizitems[3])
        /\ ~Answered(p.quizitems[2])
        /\ p.quizitems[1].answered_at > p.quizitems[3].answered_at
        /\ ev.result = p.quizitems[1].answered_at

\* the presses that act on the user's pass
IsPassPress(e) ==
    \/ IsPress(e, "next")
    \/ IsPress(e, "prev")
    \/ IsPress(e, "share_result")
    \/ IsAnswerPress(e)

\* C32: when the pressing user has no pass, next, prev, answer_<N> and
\* share_result change nothing in the tables, raise nothing and make no call
\* on the bot but the acknowledgement of the callback query.
C32_NoPassNoOp ==
    [][(IsPassPress(ev') /\ PassesOf(passes, ev'.user) = {}) =>
        /\ passes' = passes
        /\ ~ev'.raised
        /\ calls' = <<answer_callback_query>>
      ]_vars

\* C32 witness: an answer button has just been pressed by a user whose pass
\* was deleted by /kickme, while another user's pass is stored.
C32_Witness ==
    /\ IsAnswerPress(ev)
    /\ ev.user \in removed
    /\ PassesOf(passes, ev.user) = {}
    /\ passes # {}
    /\ calls = <<answer_callback_query>>

\* C33: every callback query is acknowledged exactly once, whatever its data
\* and whatever its handler does next; 'ignore' and data no handler knows
\* change nothing in the tables and make no other call on the bot.
C33_AcknowledgedOnce ==
    [][ev'.kind = "callback_query" =>
        /\ Cardinality(Made(calls', "answer_callback_query")) = 1
        /\ (IsPress(ev', "ignore") \/ ev'.data \notin CallbackData \ {"bogus"}) =>
            /\ passes' = passes
            /\ ~ev'.raised
            /\ Len(calls') = 1
      ]_vars

\* C33 witness: data no handler knows has just arrived from a user whose
\* active pass is unfinished, and the one call made is the acknowledgement.
C33_Witness ==
    /\ IsPress(ev, "bogus")
    /\ ActivePass(passes, ev.user) # NoPass
    /\ ~Finished(ActivePass(passes, ev.user))
    /\ calls = <<answer_callback_query>>

\* C34: every pass of a user other than the most recently created one is
\* finished and failed, so that a user has at most one unfinished pass and at
\* most one passed pass.
C34_SupersededPassesFailed ==
    \A u \in Users \cup Senders :
        /\ \A p \in PassesOf(passes, u) \ {ActivePass(passes, u)} :
                Finished(p) /\ ~Passed(p)
        /\ Cardinality({p \in PassesOf(passes, u) : ~Finished(p)}) <= 1
        /\ Cardinality({p \in PassesOf(passes, u) :
                            Finished(p) /\ Passed(p)}) <= 1

\* C34 witness: a user holds a failed pass and, created after it, a pass that
\* is finished and passed.
C34_Witness ==
    \E u \in Users :
        \E p, q \in PassesOf(passes, u) :
            /\ p.created_at < q.created_at
            /\ Finished(p) /\ ~Passed(p)
            /\ Finished(q) /\ Passed(q)

\* C35: the passed or failed message and the lifting of the restriction come
\* only with the answer that finishes the pass: an answer press on an active
\* pass that was finished before the press sends neither message and makes no
\* restriction call.
C35_NotifiedOnce ==
    [][\A u \in Users :
        (IsAnswerPress(ev') /\ ev'.user = u
            /\ ActivePass(passes, u) # NoPass
            /\ Finished(ActivePass(passes, u))) =>
                /\ Sent(calls', "PASSED") = {}
                /\ Sent(calls', "FAILED") = {}
                /\ Made(calls', "restrict_chat_member") = {}
      ]_vars

\* a call that lifts the restriction of the user: all permissions on
Unmutes(c, u) ==
    /\ c.op = "restrict_chat_member"
    /\ c.user_id = u
    /\ c.text.can_send_message

\* C36: whatever the event, the bot lifts the restriction of a user only when,
\* once the event is handled, the user's active pass is finished and passed;
\* never for a user without a pass or with an unfinished or failed active pass.
C36_UnrestrictOnlyPassed ==
    [][\A u \in Users \cup Senders :
        (\E i \in 1..Len(calls') : Unmutes(calls'[i], u)) =>
            /\ ActivePass(passes', u) # NoPass
            /\ Finished(ActivePass(passes', u))
            /\ Passed(ActivePass(passes', u))
            /\ IsAnswerPress(ev') /\ ev'.user = u
      ]_vars

\* C36 witness: the restriction of a user who was muted on joining has just
\* been lifted by the answer that finished their pass, one answer being wrong.
C36_Witness ==
    \E u \in Users :
        /\ \E i \in 1..Len(calls) : Unmutes(calls[i], u)
        /\ IsAnswerPress(ev)
        /\ JobsFor(jobs, u) # {}
        /\ CountCorrect(ActivePass(passes, u)) <
                Len(ActivePass(passes, u).quizitems)

\* the event kicked the user out of the group for inactivity
KickedByJob(e, cs, u) ==
    IsJobRun(e) /\ MadeFor(cs, "kick_chat_member", u) # {}

\* C37: a user is not kicked for inactivity before the inactivity delay has
\* passed since their latest join: when a job kicks a user, no job scheduled
\* by a later join of that user is still waiting for its time.
C37_KickAfterLatestJoin ==
    [][\A u \in Users :
        KickedByJob(ev', calls', u) =>
            \A j \in JobsFor(jobs', u) : j.due <= now'
      ]_vars

\* the user has just joined again after a removal command was carried out on
\* them, without a new pass since, and the job of this join is due within the
\* time the clock reaches
Rejoined(u) ==
    /\ IsJoin(ev)
    /\ \E i \in 1..Len(ev.data) : ev.data[i] = u
    /\ u \in removed
    /\ now + KICK_INACTIVE_AFTER <= MaxLate
    /\ \E j \in JobsFor(jobs, u) : j.due = now + KICK_INACTIVE_AFTER

\* C38: a user who joins again after a removal by /kick or /kickme and does
\* not press start_quiz afterwards is, in the end, kicked by the inactivity
\* job, whatever passes they held before the removal.
C38_RejoinTimerKicks ==
    \A u \in Users :
        Rejoined(u) ~>
            \/ KickedByJob(ev, calls, u)
            \/ IsPress(ev, "start_quiz") /\ ev.user = u

\* the place in p.quizitems of the item current_item_index points at
PlaceOfCurrent(p) ==
    CHOOSE i \in 1..Len(p.quizitems) :
        p.quizitems[i].index = p.current_item_index

\* C39: a next or prev press changes nothing but current_item_index of the
\* pressing user's active pass, and does so on a finished pass as well; an
\* answer press changes at most given_answer and answered_at of the current
\* item of that pass and never current_item_index.
C39_PressesChangeOnlyTheirField ==
    [][\A u \in Users :
        LET p == ActivePass(passes, u)
        IN (ev'.kind = "callback_query" /\ ev'.user = u /\ p # NoPass) =>
            /\ (IsPress(ev', "next") \/ IsPress(ev', "prev")) =>
                /\ HasRow(passes', p)
                /\ passes' \ {SameRow(passes', p)} = passes \ {p}
                /\ SameRow(passes', p) =
                        [p EXCEPT !.current_item_index =
                            SameRow(passes', p).current_item_index]
                /\ Len(p.quizitems) > 1 =>
                        SameRow(passes', p).current_item_index
                            # p.current_item_index
            /\ IsAnswerPress(ev') =>
                /\ HasRow(passes', p)
                /\ passes' \ {SameRow(passes', p)} = passes \ {p}
                /\ SameRow(passes', p).current_item_index
                        = p.current_item_index
                /\ LET q == SameRow(passes', p)
                       i == PlaceOfCurrent(p)
                   IN q = [p EXCEPT
                            !.quizitems[i].given_answer =
                                    q.quizitems[i].given_answer,
                            !.quizitems[i].answered_at =
                                    q.quizitems[i].answered_at]
      ]_vars

\* C39 witness: a prev press has just moved the index of a finished pass, its
\* items as they were answered.
C39_Witness ==
    /\ IsPress(ev, "prev")
    /\ ActivePass(passes, ev.user) # NoPass
    /\ Finished(ActivePass(passes, ev.user))
    /\ Len(calls) = 2
    /\ ActivePass(passes, ev.user).current_item_index = 1

\* C40: result_shared is true only on a pass that is finished and passed, and
\* a pass whose result_shared is true keeps it true for as long as the pass is
\* stored.
C40_SharedStaysShared ==
    [][/\ \A p \in passes' :
            p.result_shared => Finished(p) /\ Passed(p)
       /\ \A p \in passes :
            (p.result_shared /\ HasRow(passes', p)) =>
                SameRow(passes', p).result_shared
      ]_vars

\* C40 witness: the user has just pressed an answer button on a pass whose
\* result was shared before, and the pass is still marked as shared.
C40_Witness ==
    /\ IsAnswerPress(ev)
    /\ ActivePass(passes, ev.user) # NoPass
    /\ ActivePass(passes, ev.user).result_shared
    /\ CountCorrect(ActivePass(passes, ev.user)) = 1
====
